---- MODULE Spec2Model ----
(***************************************************************************)
(* StreamBuilder (public/service/stream_builder.go): the accumulated       *)
(* builder state and its mutating operations, the closure returned by      *)
(* AddProducerFunc / AddBatchProducerFunc, and the consumer pump started   *)
(* by runConsumerFunc.                                                     *)
(*                                                                         *)
(*   Spec          the builder operations (single owning thread)           *)
(*   SpecProducer  concurrent calls of the producer closure against a      *)
(*                 pipeline that receives and acknowledges transactions    *)
(*   SpecConsumer  the consumer pump of one running pipeline               *)
(*   SpecResources the cache and rate-limit registry                       *)
(*   SpecSnapshot  the builder operations and the snapshot (buildConfig)   *)
(*   SpecFields    SetFields with one pathValues list per behaviour        *)
(*   SpecRoundTrip AsYAML read back by SetYAML                             *)
(*   SpecBuild     Build, later builder operations and the run callback    *)
(*   SpecPipeline  the processor chain and the buffer                      *)
(*   SpecYAML      every method that takes a YAML text                     *)
(*   SpecReplace   SetYAML after calls that set the state                  *)
(*   SpecOrder     SetFields with lists that write a path more than once   *)
(*   SpecProducerFair  the producer closure with its selects scheduled     *)
(***************************************************************************)
EXTENDS Integers, Sequences, FiniteSets, TLC

\* ---------------------------------------------------------------- bounds
\* Builder operations per behaviour of Spec.
MaxOps == 4
\* Concurrent callers of the producer closure in SpecProducer.
NumCallers == 2
\* Longest batch handed to the batch producer closure in SpecProducer.
MaxSendLen == 1
\* Transactions the pipeline emits on the synthetic output in SpecConsumer.
MaxTx == 2
\* Longest batch the pipeline emits to the pump in SpecConsumer.
MaxBatchLen == 3
\* Longest pathValues list passed to SetFields in SpecFields.
MaxPathValues == 4

\* ------------------------------------------------------------ value sets
Nil == "nil"

\* Message parts; a Message wraps one part (m.part).
Parts == {"a", "b"}
NewInternalMessage(part) == [part |-> part]
Messages == {NewInternalMessage(x) : x \in Parts}

SeqsUpTo(S, n) == UNION {[1..k -> S] : k \in 0..n}
MessageBatches == SeqsUpTo(Messages, MaxBatchLen)
PartBatches == SeqsUpTo(Parts, MaxBatchLen)

\* Handler arguments of AddConsumerFunc / AddBatchConsumerFunc: a nil func
\* value or a func.
NilFn == "nilfn"
Handlers == {NilFn, "fn"}

\* Results a consumer handler or the pipeline can produce: nil or an error.
ErrRejected == "err: rejected"
ErrHandler == "err: handler failed"
PipelineResults == {Nil, ErrRejected}
HandlerResults == {Nil, ErrHandler, ErrRejected}
\* ctx.Err() of a cancelled context.
ErrCtx == "context canceled"

\* Errors returned by the builder operations.
ErrDupProducer == "unable to add multiple producer funcs to a stream builder"
ErrDupConsumer == "unable to add multiple consumer funcs to a stream builder"
ErrProducerUUID == "failed to generate a producer uuid"
ErrConsumerUUID == "failed to generate a consumer uuid"
ErrOverrideInputs == "attempted to override inputs config after adding a func producer"
ErrOverrideOutputs == "attempted to override outputs config after adding a func consumer"
ErrYAML == "yaml: unmarshal error"
ErrLint == "lint error"
ErrConfig == "config error"

DupErrors == {ErrDupProducer, ErrDupConsumer}
ConflictErrors == {ErrOverrideInputs, ErrOverrideOutputs}

\* uuid.NewV4().String() of the n-th generated uuid.
UUID(n) == "uuid-" \o ToString(n)

\* ------------------------------------------------------ component configs
\* Plugin is the type-specific payload; a scalar payload is [value |-> x].
ComponentConfig(label, type, plugin) ==
  [Label |-> label, Type |-> type, Plugin |-> [value |-> plugin]]

InputNewConfig == ComponentConfig("", "stdin", "")
OutputNewConfig == ComponentConfig("", "stdout", "")
BufferNewConfig == ComponentConfig("", "none", "")
MetricsNewConfig == ComponentConfig("", "none", "")
TracerNewConfig == ComponentConfig("", "none", "")
LogNewConfig == [LogLevel |-> "INFO"]
ApiNewConfig == [Enabled |-> TRUE]
NewResourceConfig == [ResourceCaches |-> <<>>, ResourceRateLimits |-> <<>>]

\* conf.Type = "inproc"; conf.Plugin = id
InprocConfig(conf, id) == [conf EXCEPT !.Type = "inproc", !.Plugin = [value |-> id]]

\* s.consumerFunc: nil, the per-message wrapper closure over fn, or fn itself.
NilFunc == [kind |-> "nil", fn |-> NilFn]
PerMessageFunc(fn) == [kind |-> "msg", fn |-> fn]
BatchFunc(fn) == IF fn = NilFn THEN NilFunc ELSE [kind |-> "batch", fn |-> fn]

NewStreamBuilder ==
  [ http |-> [ApiNewConfig EXCEPT !.Enabled = FALSE],
    threads |-> 0,
    inputs |-> <<>>,
    buffer |-> BufferNewConfig,
    processors |-> <<>>,
    outputs |-> <<>>,
    resources |-> NewResourceConfig,
    metrics |-> MetricsNewConfig,
    tracer |-> TracerNewConfig,
    logger |-> LogNewConfig,
    producerChan |-> Nil,
    producerID |-> "",
    consumerFunc |-> NilFunc,
    consumerID |-> "",
    apiMut |-> Nil,
    customLogger |-> Nil,
    lintingDisabled |-> FALSE,
    outputBrokerPattern |-> "" ]

\* ------------------------------------------------- YAML inputs (fragments)
\* A YAML text is given by what the parser, the linter and the component
\* decoder make of it: syntax (docs.UnmarshalYAML succeeds), lints (the
\* linter reports nothing), decodes (FromAny / FromParsed succeeds) and the
\* config it decodes to.
Fragment(syntax, lints, decodes, conf) ==
  [syntax |-> syntax, lints |-> lints, decodes |-> decodes, conf |-> conf]

InputFragments ==
  { Fragment(TRUE, TRUE, TRUE, ComponentConfig("", "generate", "g1")),
    Fragment(TRUE, FALSE, TRUE, ComponentConfig("", "generate", "g2")),
    Fragment(TRUE, FALSE, FALSE, InputNewConfig),
    Fragment(FALSE, FALSE, FALSE, InputNewConfig) }

OutputFragments ==
  { Fragment(TRUE, TRUE, TRUE, ComponentConfig("", "drop", "d1")),
    Fragment(TRUE, FALSE, TRUE, ComponentConfig("", "drop", "d2")),
    Fragment(TRUE, FALSE, FALSE, OutputNewConfig),
    Fragment(FALSE, FALSE, FALSE, OutputNewConfig) }

\* The http section of a document that has none, as the builder reads it:
\* s.configSpec is config.Spec() with tmpSpec.SetDefault(false, "http",
\* "enabled"), and ParsedConfigFromAny fills the defaults of the spec in.
ConfigSpecHTTP == [ApiNewConfig EXCEPT !.Enabled = FALSE]

\* config.Type as FromParsed fills it for a document without http, logger,
\* buffer, resources, metrics and tracer sections.
ConfigType(in, procs, threads, out) ==
  [ HTTP |-> ConfigSpecHTTP,
    Input |-> in,
    Buffer |-> BufferNewConfig,
    Processors |-> procs,
    Threads |-> threads,
    Output |-> out,
    ResourceConfig |-> NewResourceConfig,
    Logger |-> LogNewConfig,
    Metrics |-> MetricsNewConfig,
    Tracer |-> TracerNewConfig ]

Documents ==
  { Fragment(TRUE, TRUE, TRUE,
      ConfigType(ComponentConfig("", "generate", "g3"),
                 <<ComponentConfig("", "mapping", "p1")>>, 2,
                 ComponentConfig("", "drop", "d3"))),
    Fragment(TRUE, FALSE, TRUE,
      ConfigType(InputNewConfig, <<>>, 1, OutputNewConfig)),
    Fragment(TRUE, FALSE, FALSE, ConfigType(InputNewConfig, <<>>, 0, OutputNewConfig)),
    Fragment(FALSE, FALSE, FALSE, ConfigType(InputNewConfig, <<>>, 0, OutputNewConfig)) }

\* ------------------------------------------------------------- variables
VARIABLES
  s,          \* the StreamBuilder
  pre,        \* s before the last builder operation
  last,       \* the last builder operation: [op, err]
  nOps,       \* builder operations performed
  registered, \* successful registrations so far: [producer, consumer]
  uuidNext,   \* uuids generated so far
  lastArg,    \* the argument of the last builder operation
  added,      \* what the caller gave the builder so far: the input and the
              \* output configs in order, the pattern last set if any, and
              \* the configs of the successful AddProcessorYAML and
              \* SetBufferYAML calls in call order
  snaps,      \* the last two snapshots taken: [n, conf], n the value of nOps
  fieldArgs,  \* the pathValues list the caller passes to SetFields
  stream,     \* the pipeline Build returned, and the builder fields Build read
  \* --- producer closure and the pipeline behind s.producerChan
  handler,    \* which closure was returned: "none" | "msg" | "batch"
  built,      \* Build has bound s.producerChan into the manager
  pc,         \* caller -> "idle" | "select1" | "select2" | "done"
  ctxDone,    \* caller -> the call's ctx.Done() has fired
  ctxAtCall,  \* caller -> ctx.Done() had fired when the call was made
  tran,       \* caller -> the transaction the call created
  ret,        \* caller -> the value the call returned
  sends,      \* caller -> times the call's transaction went to the pipeline
  receiving,  \* the pipeline is blocked receiving from s.producerChan
  inflight,   \* transactions the pipeline accepted and has not yet resolved
  acking,     \* pipeline sends blocked on a response channel
  decided,    \* caller -> the result the pipeline resolved its transaction with
  resolved,   \* callers whose transaction's acknowledgement was received
  \* --- consumer pump
  pumpPc,     \* "init" | "off" | "failed" | "recv" | "call" | "ack" | "exit" |
              \* "panic"
  pipeOpen,   \* the synthetic output's channel is open
  emitted,    \* transactions received by the pump
  cur,        \* the transaction the pump holds: [id, payload]
  idx,        \* messages of cur the per-message wrapper has passed
  calls,      \* handler invocations for cur, in order
  handlerRes, \* what s.consumerFunc returned for cur
  outstanding,\* transactions received whose acknowledgement is unresolved
  ackCount,   \* transaction id -> acknowledgements made
  ackVal      \* transaction id -> last acknowledgement value

builderVars == <<s, pre, last, nOps, registered, uuidNext, lastArg, added, snaps, fieldArgs,
                stream>>
producerVars == <<handler, built, pc, ctxDone, ctxAtCall, tran, ret, sends,
                  receiving, inflight, acking, decided, resolved>>
consumerVars == <<pumpPc, pipeOpen, emitted, cur, idx, calls, handlerRes,
                  outstanding, ackCount, ackVal>>
vars == <<builderVars, producerVars, consumerVars>>

Callers == 1..NumCallers
TxIds == 1..MaxTx

NoTran == [payload |-> <<>>, resChan |-> 0]
NoCur == [id |-> 0, payload |-> <<>>]
NoOp == [op |-> "none", err |-> Nil]
NoArg == <<>>

NoneAdded ==
  [inputs |-> <<>>, outputs |-> <<>>, pattern |-> <<>>, processors |-> <<>>,
   buffer |-> <<>>]

\* No pipeline built yet.
NoStream ==
  [built |-> FALSE, at |-> 0, conf |-> <<>>, pipes |-> {}, producerID |-> "",
   consumerFunc |-> NilFunc, consumerID |-> ""]

\* The variables that observe the builder, before any operation.
ObserverIdle ==
  /\ lastArg = NoArg
  /\ added = NoneAdded
  /\ snaps = <<>>
  /\ fieldArgs = <<>>
  /\ stream = NoStream

ProducerIdle ==
  /\ handler = "none"
  /\ built = FALSE
  /\ pc = [p \in Callers |-> "idle"]
  /\ ctxDone = [p \in Callers |-> FALSE]
  /\ ctxAtCall = [p \in Callers |-> FALSE]
  /\ tran = [p \in Callers |-> NoTran]
  /\ ret = [p \in Callers |-> Nil]
  /\ sends = [p \in Callers |-> 0]
  /\ receiving = FALSE
  /\ inflight = {}
  /\ acking = {}
  /\ decided = [p \in Callers |-> "none"]
  /\ resolved = {}

ConsumerIdle ==
  /\ pumpPc = "off"
  /\ pipeOpen = TRUE
  /\ emitted = 0
  /\ cur = NoCur
  /\ idx = 0
  /\ calls = <<>>
  /\ handlerRes = Nil
  /\ outstanding = {}
  /\ ackCount = [t \in TxIds |-> 0]
  /\ ackVal = [t \in TxIds |-> Nil]

\* ===================================================== builder operations
\* Bookkeeping of one builder operation op that was called with argument a
\* and returned err.
Called(op, err, a) ==
  /\ nOps < MaxOps
  /\ nOps' = nOps + 1
  /\ pre' = s
  /\ last' = [op |-> op, err |-> err]
  /\ lastArg' = a
  /\ UNCHANGED <<fieldArgs, stream>>

\* A method that takes no snapshot.
ReturnedFor(op, err, a) ==
  /\ Called(op, err, a)
  /\ UNCHANGED snaps

Returned(op, err) == ReturnedFor(op, err, NoArg)

\* The state change of a successful producer registration.
RegisterProducer(b, id) ==
  [b EXCEPT !.producerChan = "tChan",
            !.producerID = id,
            !.inputs = Append(@, InprocConfig(InputNewConfig, id))]

\* The state change of a successful consumer registration.
RegisterConsumer(b, fnc, id) ==
  [b EXCEPT !.consumerFunc = fnc,
            !.consumerID = id,
            !.outputs = Append(@, InprocConfig(OutputNewConfig, id))]

AddProducerBody(op) ==
  IF s.producerChan # Nil
  THEN /\ Returned(op, ErrDupProducer)
       /\ UNCHANGED <<s, registered, uuidNext, added>>
  ELSE \* uuid.NewV4() succeeds, or fails to read random bytes
       \/ /\ Returned(op, Nil)
          /\ uuidNext' = uuidNext + 1
          /\ s' = RegisterProducer(s, UUID(uuidNext + 1))
          /\ registered' = [registered EXCEPT !.producer = @ + 1]
          /\ added' = [added EXCEPT !.inputs =
                         Append(@, InprocConfig(InputNewConfig, UUID(uuidNext + 1)))]
       \/ /\ Returned(op, ErrProducerUUID)
          /\ UNCHANGED <<s, registered, uuidNext, added>>

AddProducerFunc ==
  /\ AddProducerBody("AddProducerFunc")
  /\ UNCHANGED <<producerVars, consumerVars>>

AddBatchProducerFunc ==
  /\ AddProducerBody("AddBatchProducerFunc")
  /\ UNCHANGED <<producerVars, consumerVars>>

AddConsumerBody(op, fnc) ==
  IF s.consumerFunc # NilFunc
  THEN /\ Returned(op, ErrDupConsumer)
       /\ UNCHANGED <<s, registered, uuidNext, added>>
  ELSE \* uuid.NewV4() succeeds, or fails to read random bytes
       \/ /\ Returned(op, Nil)
          /\ uuidNext' = uuidNext + 1
          /\ s' = RegisterConsumer(s, fnc, UUID(uuidNext + 1))
          /\ registered' = [registered EXCEPT !.consumer = @ + 1]
          /\ added' = [added EXCEPT !.outputs =
                         Append(@, InprocConfig(OutputNewConfig, UUID(uuidNext + 1)))]
       \/ /\ Returned(op, ErrConsumerUUID)
          /\ UNCHANGED <<s, registered, uuidNext, added>>

AddConsumerFunc ==
  /\ \E fn \in Handlers : AddConsumerBody("AddConsumerFunc", PerMessageFunc(fn))
  /\ UNCHANGED <<producerVars, consumerVars>>

AddBatchConsumerFunc ==
  /\ \E fn \in Handlers : AddConsumerBody("AddBatchConsumerFunc", BatchFunc(fn))
  /\ UNCHANGED <<producerVars, consumerVars>>

\* getYAMLNode, lintYAMLComponent / lintYAMLSpec and the decoder, in the
\* order the Add*YAML and Set*YAML methods run them: the error returned, or
\* Nil.
YAMLError(b, frag) ==
  IF ~frag.syntax THEN ErrYAML
  ELSE IF ~b.lintingDisabled /\ ~frag.lints THEN ErrLint
  ELSE IF ~frag.decodes THEN ErrConfig
  ELSE Nil

\* The errors that are lint errors: those of lintsToErr and those of the
\* decoder, since fromYAML returns docs.NewLintError(value.Line,
\* docs.LintComponentNotFound, err) or docs.NewLintError(value.Line,
\* docs.LintFailedRead, err) for a node it cannot decode, which
\* convertDocsLintErr hands to the caller as a lint error.
LintErrors == {ErrLint, ErrConfig}

AddInputYAML ==
  /\ \E frag \in InputFragments :
       /\ ReturnedFor("AddInputYAML", YAMLError(s, frag), <<frag>>)
       /\ s' = IF YAMLError(s, frag) = Nil
               THEN [s EXCEPT !.inputs = Append(@, frag.conf)]
               ELSE s
       /\ added' = IF YAMLError(s, frag) = Nil
                   THEN [added EXCEPT !.inputs = Append(@, frag.conf)]
                   ELSE added
  /\ UNCHANGED <<registered, uuidNext, producerVars, consumerVars>>

AddOutputYAML ==
  /\ \E frag \in OutputFragments :
       /\ ReturnedFor("AddOutputYAML", YAMLError(s, frag), <<frag>>)
       /\ s' = IF YAMLError(s, frag) = Nil
               THEN [s EXCEPT !.outputs = Append(@, frag.conf)]
               ELSE s
       /\ added' = IF YAMLError(s, frag) = Nil
                   THEN [added EXCEPT !.outputs = Append(@, frag.conf)]
                   ELSE added
  /\ UNCHANGED <<registered, uuidNext, producerVars, consumerVars>>

DisableLinting ==
  /\ Returned("DisableLinting", Nil)
  /\ s' = [s EXCEPT !.lintingDisabled = TRUE]
  /\ UNCHANGED <<registered, uuidNext, added, producerVars, consumerVars>>

\* SetThreads(n): s.threads = n
SetThreads ==
  /\ \E n \in {1, 2} :
       /\ ReturnedFor("SetThreads", Nil, <<n>>)
       /\ s' = [s EXCEPT !.threads = n]
  /\ UNCHANGED <<registered, uuidNext, added, producerVars, consumerVars>>

\* setFromConfig that appends the input and the output to the lists.
setFromConfigAppending(b, sconf) ==
  [b EXCEPT !.http = sconf.HTTP,
            !.inputs = Append(@, sconf.Input),
            !.buffer = sconf.Buffer,
            !.processors = sconf.Processors,
            !.threads = sconf.Threads,
            !.outputs = Append(@, sconf.Output),
            !.resources = sconf.ResourceConfig,
            !.logger = sconf.Logger,
            !.metrics = sconf.Metrics,
            !.tracer = sconf.Tracer]

setFromConfig(b, sconf) ==
  [b EXCEPT !.http = sconf.HTTP,
            !.inputs = <<sconf.Input>>,
            !.buffer = sconf.Buffer,
            !.processors = sconf.Processors,
            !.threads = sconf.Threads,
            !.outputs = <<sconf.Output>>,
            !.resources = sconf.ResourceConfig,
            !.logger = sconf.Logger,
            !.metrics = sconf.Metrics,
            !.tracer = sconf.Tracer]

SetYAMLError(b, doc) ==
  IF b.producerChan # Nil THEN ErrOverrideInputs
  ELSE IF b.consumerFunc # NilFunc THEN ErrOverrideOutputs
  ELSE YAMLError(b, doc)

SetYAML ==
  /\ \E doc \in Documents :
       /\ ReturnedFor("SetYAML", SetYAMLError(s, doc), <<doc>>)
       /\ s' = IF SetYAMLError(s, doc) = Nil THEN setFromConfig(s, doc.conf) ELSE s
       /\ added' = IF SetYAMLError(s, doc) = Nil
                   THEN [added EXCEPT !.inputs = <<doc.conf.Input>>,
                                      !.outputs = <<doc.conf.Output>>]
                   ELSE added
  /\ UNCHANGED <<registered, uuidNext, producerVars, consumerVars>>

Init ==
  /\ s = NewStreamBuilder
  /\ pre = NewStreamBuilder
  /\ last = NoOp
  /\ nOps = 0
  /\ registered = [producer |-> 0, consumer |-> 0]
  /\ uuidNext = 0
  /\ ObserverIdle
  /\ ProducerIdle
  /\ ConsumerIdle

Next ==
  \/ AddProducerFunc
  \/ AddBatchProducerFunc
  \/ AddConsumerFunc
  \/ AddBatchConsumerFunc
  \/ AddInputYAML
  \/ AddOutputYAML
  \/ DisableLinting
  \/ SetYAML

Spec == Init /\ [][Next]_vars

\* ====================================================== resource registry
ErrCacheLabel == "a label must be specified for cache resources"
ErrRateLimitLabel == "a label must be specified for rate limit resources"
ErrCollision(label) ==
  "label " \o label \o " collides with a previously defined resource"

\* Cache YAML texts: two different configs under one label, a label that a
\* rate limit uses too, a config without label, one the linter rejects and
\* one that is not YAML.
CacheFragments ==
  { Fragment(TRUE, TRUE, TRUE, ComponentConfig("c1", "memory", "m1")),
    Fragment(TRUE, TRUE, TRUE, ComponentConfig("c1", "redis", "m2")),
    Fragment(TRUE, TRUE, TRUE, ComponentConfig("shared", "memory", "m3")),
    Fragment(TRUE, TRUE, TRUE, ComponentConfig("", "memory", "m4")),
    Fragment(TRUE, FALSE, TRUE, ComponentConfig("c1", "memory", "m5")),
    Fragment(FALSE, FALSE, FALSE, ComponentConfig("", "", "")) }

RateLimitFragments ==
  { Fragment(TRUE, TRUE, TRUE, ComponentConfig("r1", "local", "l1")),
    Fragment(TRUE, TRUE, TRUE, ComponentConfig("r1", "redis", "l2")),
    Fragment(TRUE, TRUE, TRUE, ComponentConfig("shared", "local", "l3")),
    Fragment(TRUE, TRUE, TRUE, ComponentConfig("", "local", "l4")),
    Fragment(TRUE, FALSE, TRUE, ComponentConfig("r1", "local", "l5")),
    Fragment(FALSE, FALSE, FALSE, ComponentConfig("", "", "")) }

\* The labels of a resource list.
Labels(list) == {list[i].Label : i \in 1..Len(list)}

\* The checks AddCacheYAML / AddRateLimitYAML make on a text before they
\* append it to list, in their order: the error returned, or Nil.
ResourceErrorAnyLabel(b, frag, list, errNoLabel) ==
  IF YAMLError(b, frag) # Nil THEN YAMLError(b, frag)
  ELSE IF frag.conf.Label \in Labels(list) THEN ErrCollision(frag.conf.Label)
  ELSE Nil

ResourceError(b, frag, list, errNoLabel) ==
  IF YAMLError(b, frag) # Nil THEN YAMLError(b, frag)
  ELSE IF frag.conf.Label = "" THEN errNoLabel
  ELSE IF frag.conf.Label \in Labels(list) THEN ErrCollision(frag.conf.Label)
  ELSE Nil

\* The cache list after a call: the colliding entry is overwritten.
AddCacheOverwriting(b, frag) ==
  LET err == ResourceError(b, frag, b.resources.ResourceCaches, ErrCacheLabel)
  IN  IF err = Nil
      THEN [b EXCEPT !.resources.ResourceCaches = Append(@, frag.conf)]
      ELSE IF err = ErrCollision(frag.conf.Label)
      THEN [b EXCEPT !.resources.ResourceCaches =
              [i \in DOMAIN @ |-> IF @[i].Label = frag.conf.Label
                                  THEN frag.conf ELSE @[i]]]
      ELSE b

\* The builder after AddCacheYAML(frag).
AddCache(b, frag) ==
  IF ResourceError(b, frag, b.resources.ResourceCaches, ErrCacheLabel) = Nil
  THEN [b EXCEPT !.resources.ResourceCaches = Append(@, frag.conf)]
  ELSE b

\* The builder after AddRateLimitYAML(frag).
AddRateLimit(b, frag) ==
  IF ResourceError(b, frag, b.resources.ResourceRateLimits, ErrRateLimitLabel) = Nil
  THEN [b EXCEPT !.resources.ResourceRateLimits = Append(@, frag.conf)]
  ELSE b

AddCacheYAML ==
  /\ \E frag \in CacheFragments :
       /\ ReturnedFor("AddCacheYAML",
                      ResourceError(s, frag, s.resources.ResourceCaches, ErrCacheLabel),
                      <<frag>>)
       /\ s' = AddCache(s, frag)
  /\ UNCHANGED <<registered, uuidNext, added, producerVars, consumerVars>>

AddRateLimitYAML ==
  /\ \E frag \in RateLimitFragments :
       /\ ReturnedFor("AddRateLimitYAML",
                      ResourceError(s, frag, s.resources.ResourceRateLimits,
                                    ErrRateLimitLabel),
                      <<frag>>)
       /\ s' = AddRateLimit(s, frag)
  /\ UNCHANGED <<registered, uuidNext, added, producerVars, consumerVars>>

\* A manager.ResourceConfig of caches and rate limits.
ResourceConfig(caches, rateLimits) ==
  [ResourceCaches |-> caches, ResourceRateLimits |-> rateLimits]

\* Resource YAML texts: one cache, two caches of which the second has the
\* label of the first text's, one rate limit, a text the linter rejects and
\* one that is not YAML.  Every resource of a text carries a label.
ResourceDocuments ==
  { Fragment(TRUE, TRUE, TRUE,
             ResourceConfig(<<ComponentConfig("c1", "memory", "m1")>>, <<>>)),
    Fragment(TRUE, TRUE, TRUE,
             ResourceConfig(<<ComponentConfig("c2", "memory", "m6"),
                              ComponentConfig("c1", "redis", "m2")>>, <<>>)),
    Fragment(TRUE, TRUE, TRUE,
             ResourceConfig(<<>>, <<ComponentConfig("r1", "local", "l1")>>)),
    Fragment(TRUE, FALSE, TRUE,
             ResourceConfig(<<ComponentConfig("c3", "memory", "m7")>>, <<>>)),
    Fragment(FALSE, FALSE, FALSE, ResourceConfig(<<>>, <<>>)) }

\* The resources of extra added to list one by one: a resource whose label
\* the list has ends the run with the collision error, and what was added
\* before it stays.
RECURSIVE addEach(_, _)
addEach(list, extra) ==
  IF extra = <<>> THEN [err |-> Nil, list |-> list]
  ELSE IF Head(extra).Label \in Labels(list)
  THEN [err |-> ErrCollision(Head(extra).Label), list |-> list]
  ELSE addEach(Append(list, Head(extra)), Tail(extra))

\* r.AddFrom(extra): the error returned and the resources r then holds, the
\* caches before the rate limits.
AddFrom(r, extra) ==
  LET c == addEach(r.ResourceCaches, extra.ResourceCaches)
      l == addEach(r.ResourceRateLimits, extra.ResourceRateLimits)
  IN  IF c.err # Nil
      THEN [err |-> c.err, resources |-> [r EXCEPT !.ResourceCaches = c.list]]
      ELSE [err |-> l.err,
            resources |-> [r EXCEPT !.ResourceCaches = c.list,
                                    !.ResourceRateLimits = l.list]]

\* AddResourcesYAML(conf): the text is read, linted and parsed as the other
\* texts are, and its resources are added by AddFrom.
AddResourcesYAML ==
  /\ \E doc \in ResourceDocuments :
       LET err == YAMLError(s, doc)
           r == AddFrom(s.resources, doc.conf)
       IN  /\ ReturnedFor("AddResourcesYAML",
                          IF err # Nil THEN err ELSE r.err, <<doc>>)
           /\ s' = IF err # Nil THEN s ELSE [s EXCEPT !.resources = r.resources]
  /\ UNCHANGED <<registered, uuidNext, added, producerVars, consumerVars>>

NextResources ==
  \/ AddCacheYAML
  \/ AddRateLimitYAML
  \/ AddResourcesYAML
  \/ DisableLinting

SpecResources == Init /\ [][NextResources]_vars

\* ============================================================ the snapshot
\* OutputBrokerPatternType values a caller passes, the empty string among
\* them.
Patterns == {"", "fan_out", "round_robin"}

SetOutputBrokerPattern ==
  /\ \E pattern \in Patterns :
       /\ ReturnedFor("SetOutputBrokerPattern", Nil, <<pattern>>)
       /\ s' = [s EXCEPT !.outputBrokerPattern = pattern]
       /\ added' = [added EXCEPT !.pattern = <<pattern>>]
  /\ UNCHANGED <<registered, uuidNext, producerVars, consumerVars>>

\* The zero builderConfig{}.Input / .Output with Type and Plugin assigned.
BrokerConfig(plugin) == [Label |-> "", Type |-> "broker", Plugin |-> plugin]

\* conf.Input of buildConfig, a broker also around one input.
buildInputAlwaysBroker(b) ==
  IF Len(b.inputs) >= 1 THEN BrokerConfig([inputs |-> b.inputs])
  ELSE InputNewConfig

\* conf.Input of buildConfig.
buildInput(b) ==
  IF Len(b.inputs) = 1 THEN b.inputs[1]
  ELSE IF Len(b.inputs) > 1 THEN BrokerConfig([inputs |-> b.inputs])
  ELSE InputNewConfig

\* The broker map of buildConfig with its sub-outputs in reverse.
outputBrokerReversed(b) ==
  LET n == Len(b.outputs)
      broker == [outputs |-> [i \in 1..n |-> b.outputs[n + 1 - i]]]
  IN  IF b.outputBrokerPattern # ""
      THEN [outputs |-> broker.outputs, pattern |-> b.outputBrokerPattern]
      ELSE broker

\* The broker map of buildConfig with "pattern" always written, fan_out
\* when none is set.
outputBrokerDefaulting(b) ==
  [outputs |-> b.outputs,
   pattern |-> IF b.outputBrokerPattern # "" THEN b.outputBrokerPattern
               ELSE "fan_out"]

\* The broker map of buildConfig: "outputs", and "pattern" when one is set.
outputBroker(b) ==
  LET broker == [outputs |-> b.outputs]
  IN  IF b.outputBrokerPattern # ""
      THEN [outputs |-> broker.outputs, pattern |-> b.outputBrokerPattern]
      ELSE broker

\* conf.Output of buildConfig with a broker for every list that is not of
\* one output, the empty list included.
buildOutputBrokerUnlessOne(b) ==
  IF Len(b.outputs) = 1 THEN b.outputs[1]
  ELSE BrokerConfig(outputBroker(b))

\* conf.Output of buildConfig.
buildOutput(b) ==
  IF Len(b.outputs) = 1 THEN b.outputs[1]
  ELSE IF Len(b.outputs) > 1 THEN BrokerConfig(outputBroker(b))
  ELSE OutputNewConfig

\* buildConfig: the builderConfig of builder b.  The pointers HTTP and
\* Logger are <<>> when nil and <<v>> when they point at v.
buildConfig(b) ==
  [ HTTP |-> IF b.apiMut = Nil THEN <<b.http>> ELSE <<>>,
    Input |-> buildInput(b),
    Buffer |-> b.buffer,
    Threads |-> b.threads,
    Processors |-> b.processors,
    Output |-> buildOutput(b),
    ResourceConfig |-> b.resources,
    Metrics |-> b.metrics,
    Tracer |-> b.tracer,
    Logger |-> IF b.customLogger = Nil THEN <<b.logger>> ELSE <<>> ]

\* The last two snapshots after one more was taken of builder b.
Snapped(b, op, fn, encoded) ==
  LET e == [n |-> nOps + 1, conf |-> buildConfig(b), op |-> op, fn |-> fn,
            encoded |-> encoded]
  IN  IF snaps = <<>> THEN <<e>> ELSE <<snaps[Len(snaps)], e>>

\* The error of node.Encode(conf), SanitiseYAML or yaml.Marshal.
ErrEncodeConfig == "yaml: config not encoded"

\* AsYAML that keeps the synthesized input in the builder.
AsYAMLCaching ==
  /\ \E encoded \in BOOLEAN :
       /\ Called("AsYAML", IF encoded THEN Nil ELSE ErrEncodeConfig, NoArg)
       /\ snaps' = Snapped(s, "AsYAML", "", encoded)
  /\ s' = [s EXCEPT !.inputs = <<buildConfig(s).Input>>]
  /\ UNCHANGED <<registered, uuidNext, added, producerVars, consumerVars>>

\* AsYAML: conf := s.buildConfig(), then the encoding of conf, which is
\* returned as a text unless Encode, SanitiseYAML or Marshal fails.
AsYAML ==
  /\ \E encoded \in BOOLEAN :
       /\ Called("AsYAML", IF encoded THEN Nil ELSE ErrEncodeConfig, NoArg)
       /\ snaps' = Snapped(s, "AsYAML", "", encoded)
  /\ s' = s
  /\ UNCHANGED <<registered, uuidNext, added, producerVars, consumerVars>>

\* The callbacks given to WalkComponents: fn returns nil, returns
\* ErrSkipComponents, returns another error, or calls s.SetThreads(2) on
\* the builder it is walking and returns nil.
ErrSkipComponents == "skip components"
ErrWalk == "stop"
WalkFuncs == {"nil", "skip", "error", "SetThreads"}

\* What the walk returns for callback fn: the Func wrapper turns
\* ErrSkipComponents into docs.ErrSkipChildComponents, which the walk takes
\* as an instruction and not as a failure; any other error ends the walk
\* and is returned.
WalkResult(fn) == IF fn = "error" THEN ErrWalk ELSE Nil

\* WalkComponents(fn): conf := s.buildConfig(), the encoding of conf, and
\* the walk over it, which calls fn on every component; every config has
\* an input and an output, so fn is called.
WalkComponents ==
  /\ \E encoded \in BOOLEAN, fn \in WalkFuncs :
       /\ Called("WalkComponents",
                 IF encoded THEN WalkResult(fn) ELSE ErrEncodeConfig, <<fn>>)
       /\ snaps' = Snapped(s, "WalkComponents", fn, encoded)
       /\ s' = IF encoded /\ fn = "SetThreads"
               THEN [s EXCEPT !.threads = 2]
               ELSE s
  /\ UNCHANGED <<registered, uuidNext, added, producerVars, consumerVars>>

NextSnapshot ==
  \/ AddProducerFunc
  \/ AddBatchProducerFunc
  \/ AddConsumerFunc
  \/ AddBatchConsumerFunc
  \/ AddInputYAML
  \/ AddOutputYAML
  \/ SetOutputBrokerPattern
  \/ AsYAML
  \/ WalkComponents

SpecSnapshot == Init /\ [][NextSnapshot]_vars

\* ================================================= documents and SetFields
\* A YAML node is a function from keys to nodes, a sequence of nodes, or the
\* text of a scalar.  An omitted key (a nil pointer under omitempty) is <<>>
\* and a present one <<node>>.

\* The node of a component config after Encode and SanitiseYAML with
\* RemoveTypeField: the label, and the plugin payload under the type name.
\* A payload that is already a node is kept; the configs a synthesized broker
\* holds in its map are encoded in turn.
RECURSIVE encodeComponent(_)
encodeComponent(c) ==
  LET p == c.Plugin
      enc(list) == [i \in 1..Len(list) |->
                      IF "Type" \in DOMAIN list[i] THEN encodeComponent(list[i])
                      ELSE list[i]]
      node == IF "inputs" \in DOMAIN p THEN [inputs |-> enc(p.inputs)]
              ELSE IF "outputs" \in DOMAIN p
              THEN IF "pattern" \in DOMAIN p
                   THEN [outputs |-> enc(p.outputs), pattern |-> p.pattern]
                   ELSE [outputs |-> enc(p.outputs)]
              ELSE p
  IN  ("label" :> c.Label) @@ (c.Type :> node)

encodeList(list) == [i \in 1..Len(list) |-> encodeComponent(list[i])]

\* node.Encode(conf) and SanitiseYAML for a builderConfig.
encodeConfig(conf) ==
  [ http |-> IF conf.HTTP = <<>> THEN <<>>
             ELSE <<[enabled |-> ToString(conf.HTTP[1].Enabled)]>>,
    input |-> encodeComponent(conf.Input),
    buffer |-> encodeComponent(conf.Buffer),
    pipeline |-> [threads |-> ToString(conf.Threads),
                  processors |-> encodeList(conf.Processors)],
    output |-> encodeComponent(conf.Output),
    cache_resources |-> encodeList(conf.ResourceConfig.ResourceCaches),
    rate_limit_resources |-> encodeList(conf.ResourceConfig.ResourceRateLimits),
    metrics |-> encodeComponent(conf.Metrics),
    logger |-> IF conf.Logger = <<>> THEN <<>>
               ELSE <<[level |-> conf.Logger[1].LogLevel]>>,
    tracer |-> encodeComponent(conf.Tracer) ]

\* A component config from its node: the type is inferred from the key that
\* is not the label and the payload under it is kept as a node.
decodeComponent(node) ==
  LET type == CHOOSE k \in DOMAIN node : k # "label"
  IN  [Label |-> node["label"], Type |-> type, Plugin |-> node[type]]

decodeList(list) == [i \in 1..Len(list) |-> decodeComponent(list[i])]

\* pipeline.threads values a document can carry as a number.
ThreadCounts == -1..4
IsInt(text) == \E n \in ThreadCounts : ToString(n) = text
ParseInt(text) == CHOOSE n \in ThreadCounts : ToString(n) = text

\* ParsedConfigFromAny and config.FromParsed accept the document.
Decodes(doc) ==
  /\ IsInt(doc.pipeline.threads)
  /\ Cardinality(DOMAIN doc.input \ {"label"}) = 1

\* ParsedConfigFromAny with s.configSpec and config.FromParsed: the
\* config.Type of a document, the defaults of the builder's spec for what
\* the document omits.
FromParsed(doc) ==
  [ HTTP |-> IF doc.http = <<>> THEN ConfigSpecHTTP
             ELSE [Enabled |-> doc.http[1].enabled = "TRUE"],
    Input |-> decodeComponent(doc.input),
    Buffer |-> decodeComponent(doc.buffer),
    Processors |-> decodeList(doc.pipeline.processors),
    Threads |-> ParseInt(doc.pipeline.threads),
    Output |-> decodeComponent(doc.output),
    ResourceConfig |-> [ResourceCaches |-> decodeList(doc.cache_resources),
                        ResourceRateLimits |-> decodeList(doc.rate_limit_resources)],
    Logger |-> IF doc.logger = <<>> THEN LogNewConfig
               ELSE [LogLevel |-> doc.logger[1].level],
    Metrics |-> decodeComponent(doc.metrics),
    Tracer |-> decodeComponent(doc.tracer) ]

ErrFieldsProducer == "attempted to override config after adding a func producer"
ErrFieldsConsumer == "attempted to override config after adding a func consumer"
ErrOddPathValues == "invalid odd number of pathValues provided"
ErrNotString(i) ==
  "variadic pair element " \o ToString(i) \o " should be a string"
ErrEncode == "yaml: cannot marshal type"
ErrPath == "field not recognised"

\* An element of the variadic list: str, its dynamic type is string; text,
\* the scalar it encodes to; encodes, yaml can encode it.
Element(str, text, encodes) == [str |-> str, text |-> text, encodes |-> encodes]

\* A field path, a number, a path the schema does not have, and a value yaml
\* cannot encode.
PathValueElements ==
  { Element(TRUE, "pipeline.threads", TRUE),
    Element(FALSE, "3", TRUE),
    Element(TRUE, "no.such.field", TRUE),
    Element(FALSE, "", FALSE) }

PathValueLists == SeqsUpTo(PathValueElements, MaxPathValues)

\* The paths SetYAMLPath finds in the schema.
FieldPaths == {"pipeline.threads", "input.label"}

\* The paths of the schema: those of FieldPaths and the mapping of a generate
\* input, a field that holds a text.
SchemaPaths == FieldPaths \cup {"input.generate.mapping"}

\* SetYAMLPath(root, value, path) for a path of SchemaPaths.  A mapping
\* written into an input that is no generate input leaves the input node
\* with the keys of two types.
SetYAMLPath(root, path, value) ==
  IF path = "pipeline.threads" THEN [root EXCEPT !.pipeline.threads = value]
  ELSE IF path = "input.label"
  THEN [root EXCEPT !.input = [@ EXCEPT !["label"] = value]]
  ELSE [root EXCEPT !.input = ("generate" :> [value |-> value]) @@ @]

\* The loop of SetFields from the pair at index i (from 1) on: the error it
\* returns, or Nil and the root node after the writes.
RECURSIVE applyPairs(_, _, _)
applyPairs(root, pathValues, i) ==
  IF i > Len(pathValues) - 1 THEN [err |-> Nil, root |-> root]
  ELSE IF ~pathValues[i + 1].encodes THEN [err |-> ErrEncode, root |-> root]
  ELSE IF ~pathValues[i].str THEN [err |-> ErrNotString(i - 1), root |-> root]
  ELSE IF pathValues[i].text \notin SchemaPaths THEN [err |-> ErrPath, root |-> root]
  ELSE applyPairs(SetYAMLPath(root, pathValues[i].text, pathValues[i + 1].text),
                  pathValues, i + 2)

\* A text with a reference to an environment variable in it, such as the
\* mapping root = "${VAR}".
EnvReference == "${VAR}"

\* The label rule of the linter: a label is made of lower-case letters,
\* digits and underscores.  Of the texts a list can write, those with a dot
\* and the reference are no labels.
LabelLints(label) ==
  label \notin {"pipeline.threads", "input.label", "no.such.field",
                "input.generate.mapping", EnvReference}

\* lintYAMLSpec(spec, &rootNode) finds nothing in the root node.  What is
\* in it was encoded from configs the builder took with linting on, or
\* written by SetYAMLPath; of the fields SetYAMLPath writes the linter has a
\* rule for the label, and a thread count that is no number is left to the
\* parser.
LintsRoot(root) ==
  /\ LabelLints(root.input["label"])
  /\ Cardinality(DOMAIN root.input \ {"label"}) = 1

\* The list with its pairs in the opposite order.
ReversePairs(pathValues) ==
  [i \in 1..Len(pathValues) |->
     pathValues[2 * ((Len(pathValues) \div 2) - ((i + 1) \div 2))
                + (IF i % 2 = 1 THEN 1 ELSE 2)]]

\* setFields whose loop runs from the last pair to the first.
setFieldsBackwards(b, pathValues, encoded) ==
  IF b.producerChan # Nil THEN [err |-> ErrFieldsProducer, sconf |-> <<>>]
  ELSE IF b.consumerFunc # NilFunc THEN [err |-> ErrFieldsConsumer, sconf |-> <<>>]
  ELSE IF Len(pathValues) % 2 # 0 THEN [err |-> ErrOddPathValues, sconf |-> <<>>]
  ELSE IF ~encoded THEN [err |-> ErrEncodeConfig, sconf |-> <<>>]
  ELSE LET r == applyPairs(encodeConfig(buildConfig(b)),
                           ReversePairs(pathValues), 1)
       IN  IF r.err # Nil THEN [err |-> r.err, sconf |-> <<>>]
           ELSE IF ~b.lintingDisabled /\ ~LintsRoot(r.root)
           THEN [err |-> ErrLint, sconf |-> <<>>]
           ELSE IF ~Decodes(r.root) THEN [err |-> ErrConfig, sconf |-> <<>>]
           ELSE [err |-> Nil, sconf |-> <<FromParsed(r.root)>>]

\* SetFields up to the call of setFromConfig: the error returned, or Nil and
\* the config to set.  The guards, the check of the length, the encoding of
\* the snapshot (encoded: Encode and SanitiseYAML succeed), the loop, the
\* linter unless linting is disabled, and the parser, whose error is
\* returned as it is.
setFields(b, pathValues, encoded) ==
  IF b.producerChan # Nil THEN [err |-> ErrFieldsProducer, sconf |-> <<>>]
  ELSE IF b.consumerFunc # NilFunc THEN [err |-> ErrFieldsConsumer, sconf |-> <<>>]
  ELSE IF Len(pathValues) % 2 # 0 THEN [err |-> ErrOddPathValues, sconf |-> <<>>]
  ELSE IF ~encoded THEN [err |-> ErrEncodeConfig, sconf |-> <<>>]
  ELSE LET r == applyPairs(encodeConfig(buildConfig(b)), pathValues, 1)
       IN  IF r.err # Nil THEN [err |-> r.err, sconf |-> <<>>]
           ELSE IF ~b.lintingDisabled /\ ~LintsRoot(r.root)
           THEN [err |-> ErrLint, sconf |-> <<>>]
           ELSE IF ~Decodes(r.root) THEN [err |-> ErrConfig, sconf |-> <<>>]
           ELSE [err |-> Nil, sconf |-> <<FromParsed(r.root)>>]

\* SetFields that sets the builder from the root node as far as the loop
\* wrote it, whatever the loop returned.
SetFieldsPartial ==
  /\ \E encoded \in BOOLEAN :
     LET r == setFields(s, fieldArgs, encoded)
         w == applyPairs(encodeConfig(buildConfig(s)), fieldArgs, 1)
         written == r.err \notin {ErrFieldsProducer, ErrFieldsConsumer,
                                  ErrOddPathValues, ErrEncodeConfig}
                      /\ Decodes(w.root)
     IN  /\ ReturnedFor("SetFields", r.err, <<fieldArgs>>)
         /\ s' = IF written THEN setFromConfig(s, FromParsed(w.root)) ELSE s
         /\ added' = IF written
                     THEN [added EXCEPT !.inputs = <<FromParsed(w.root).Input>>,
                                        !.outputs = <<FromParsed(w.root).Output>>]
                     ELSE added
  /\ UNCHANGED <<registered, uuidNext, producerVars, consumerVars>>

\* SetFields(fieldArgs...)
SetFields ==
  /\ \E encoded \in BOOLEAN :
     LET r == setFields(s, fieldArgs, encoded)
     IN  /\ ReturnedFor("SetFields", r.err, <<fieldArgs>>)
         /\ s' = IF r.err = Nil THEN setFromConfig(s, r.sconf[1]) ELSE s
         /\ added' = IF r.err = Nil
                     THEN [added EXCEPT !.inputs = <<r.sconf[1].Input>>,
                                        !.outputs = <<r.sconf[1].Output>>]
                     ELSE added
  /\ UNCHANGED <<registered, uuidNext, producerVars, consumerVars>>

\* A new builder, and the list its caller will pass to SetFields.
InitFields ==
  /\ s = NewStreamBuilder
  /\ pre = NewStreamBuilder
  /\ last = NoOp
  /\ nOps = 0
  /\ registered = [producer |-> 0, consumer |-> 0]
  /\ uuidNext = 0
  /\ lastArg = NoArg
  /\ added = NoneAdded
  /\ snaps = <<>>
  /\ fieldArgs \in PathValueLists
  /\ stream = NoStream
  /\ ProducerIdle
  /\ ConsumerIdle

NextFields ==
  \/ AddProducerFunc
  \/ AddBatchConsumerFunc
  \/ AddInputYAML
  \/ SetFields

SpecFields == InitFields /\ [][NextFields]_vars

\* Lists that write the same path more than once: two field paths, two
\* numbers and a text.
OrderElements ==
  { Element(TRUE, "pipeline.threads", TRUE),
    Element(TRUE, "input.label", TRUE),
    Element(FALSE, "3", TRUE),
    Element(FALSE, "4", TRUE) }

OrderLists == SeqsUpTo(OrderElements, MaxPathValues)

\* A new builder, and a list of OrderLists for its caller to pass.
InitOrder ==
  /\ s = NewStreamBuilder
  /\ pre = NewStreamBuilder
  /\ last = NoOp
  /\ nOps = 0
  /\ registered = [producer |-> 0, consumer |-> 0]
  /\ uuidNext = 0
  /\ lastArg = NoArg
  /\ added = NoneAdded
  /\ snaps = <<>>
  /\ fieldArgs \in OrderLists
  /\ stream = NoStream
  /\ ProducerIdle
  /\ ConsumerIdle

NextOrder ==
  \/ SetThreads
  \/ DisableLinting
  \/ SetFields

SpecOrder == InitOrder /\ [][NextOrder]_vars

\* ========================================================= the round trip
\* s.apiMut = &muxWrapper{m}
SetHTTPMux ==
  /\ Returned("SetHTTPMux", Nil)
  /\ s' = [s EXCEPT !.apiMut = "muxWrapper"]
  /\ UNCHANGED <<registered, uuidNext, added, producerVars, consumerVars>>

\* s.customLogger = log.Wrap(l)
SetPrintLogger ==
  /\ Returned("SetPrintLogger", Nil)
  /\ s' = [s EXCEPT !.customLogger = "printLogger"]
  /\ UNCHANGED <<registered, uuidNext, added, producerVars, consumerVars>>

\* s.customLogger = log.NewBenthosLogAdapter(l)
SetLogger ==
  /\ Returned("SetLogger", Nil)
  /\ s' = [s EXCEPT !.customLogger = "logAdapter"]
  /\ UNCHANGED <<registered, uuidNext, added, producerVars, consumerVars>>

\* The document AsYAML returns for snapshot conf: the encoded and sanitised
\* node, marshalled as it is.
AsYAMLText(conf) == encodeConfig(conf)

\* What the text with the reference becomes when it is read: the text with
\* the value s.envVarLookupFn gives for the variable in its place, or what
\* the best attempt leaves of it when the variable is missing.
EnvResolutions == {"v", ""}

\* ReplaceEnvVariables on one text; of the texts of the model EnvReference
\* alone holds a reference.
ReplaceEnvText(text, val) == IF text = EnvReference THEN val ELSE text

\* ReplaceEnvVariables on the node of a component: on its label, on the text
\* of its payload and on the components a broker holds.
RECURSIVE ReplaceEnvComponent(_, _)
ReplaceEnvComponent(node, val) ==
  LET each(list) == [n \in 1..Len(list) |-> ReplaceEnvComponent(list[n], val)]
      payload(p) == IF "value" \in DOMAIN p
                    THEN [p EXCEPT !.value = ReplaceEnvText(@, val)]
                    ELSE IF "inputs" \in DOMAIN p
                    THEN [p EXCEPT !.inputs = each(@)]
                    ELSE [p EXCEPT !.outputs = each(@)]
  IN  [key \in DOMAIN node |->
         IF key = "label" THEN ReplaceEnvText(node[key], val)
         ELSE payload(node[key])]

\* getYAMLNode on a document that AsYAML returned: every reference in it is
\* replaced before the text is parsed.  The thread count, the log level and
\* the http flag are no texts a reference can be written into.
ReplaceEnvVariables(doc, val) ==
  LET each(list) == [n \in 1..Len(list) |-> ReplaceEnvComponent(list[n], val)]
  IN  [doc EXCEPT !.input = ReplaceEnvComponent(@, val),
                  !.buffer = ReplaceEnvComponent(@, val),
                  !.pipeline.processors = each(@),
                  !.output = ReplaceEnvComponent(@, val),
                  !.cache_resources = each(@),
                  !.rate_limit_resources = each(@),
                  !.metrics = ReplaceEnvComponent(@, val),
                  !.tracer = ReplaceEnvComponent(@, val)]

\* What the linter and the parser make of the node getYAMLNode returns.
ParsedDocument(node) ==
  Fragment(TRUE, LintsRoot(node), Decodes(node), FromParsed(node))

\* SetYAML(y) with y a text that AsYAML returned.
SetYAMLOfAsYAML ==
  /\ \E i \in 1..Len(snaps), val \in EnvResolutions :
       LET text == AsYAMLText(snaps[i].conf)
           doc == ParsedDocument(ReplaceEnvVariables(text, val))
       IN  /\ snaps[i].op = "AsYAML"
           /\ snaps[i].encoded
           /\ ReturnedFor("SetYAML", SetYAMLError(s, doc), <<doc, text>>)
           /\ s' = IF SetYAMLError(s, doc) = Nil
                   THEN setFromConfig(s, doc.conf)
                   ELSE s
           /\ added' = IF SetYAMLError(s, doc) = Nil
                       THEN [added EXCEPT !.inputs = <<doc.conf.Input>>,
                                          !.outputs = <<doc.conf.Output>>]
                       ELSE added
  /\ UNCHANGED <<registered, uuidNext, producerVars, consumerVars>>

\* The lists of the round trip: a mapping written into the input, a plain
\* text or a reference.
RoundTripLists ==
  { <<Element(TRUE, "input.generate.mapping", TRUE), Element(TRUE, text, TRUE)>> :
      text \in {"g4", EnvReference} }

\* A new builder, and a list of RoundTripLists for its caller to pass.
InitRoundTrip ==
  /\ s = NewStreamBuilder
  /\ pre = NewStreamBuilder
  /\ last = NoOp
  /\ nOps = 0
  /\ registered = [producer |-> 0, consumer |-> 0]
  /\ uuidNext = 0
  /\ lastArg = NoArg
  /\ added = NoneAdded
  /\ snaps = <<>>
  /\ fieldArgs \in RoundTripLists
  /\ stream = NoStream
  /\ ProducerIdle
  /\ ConsumerIdle

NextRoundTrip ==
  \/ AddInputYAML
  \/ AddOutputYAML
  \/ AddBatchConsumerFunc
  \/ SetOutputBrokerPattern
  \/ SetHTTPMux
  \/ SetPrintLogger
  \/ SetLogger
  \/ SetFields
  \/ AsYAML
  \/ SetYAMLOfAsYAML

SpecRoundTrip == InitRoundTrip /\ [][NextRoundTrip]_vars

\* =================================================================== Build
ErrBuild == "build error"

\* The ids of the inproc components in a component config or the node of
\* one, the sub-outputs of a broker included.
RECURSIVE InprocIDs(_)
InprocIDs(c) ==
  LET ids(list) == UNION {InprocIDs(list[i]) : i \in 1..Len(list)}
      of(type, p) == IF type = "inproc" THEN {p.value}
                     ELSE IF "outputs" \in DOMAIN p THEN ids(p.outputs)
                     ELSE {}
  IN  IF "Type" \in DOMAIN c THEN of(c.Type, c.Plugin)
      ELSE LET type == CHOOSE k \in DOMAIN c : k # "label"
           IN  of(type, c[type])

\* The pipeline buildWithEnv returns for builder b: its config, the pipes its
\* inproc outputs set in its manager, the producer pipe bound into it, and
\* the consumer fields of b as they are when Build returns; at numbers the
\* operation that returned it.
BuiltStream(b) ==
  [ built |-> TRUE,
    at |-> nOps + 1,
    conf |-> <<buildConfig(b)>>,
    pipes |-> InprocIDs(buildConfig(b).Output),
    producerID |-> IF b.producerChan # Nil THEN b.producerID ELSE "",
    consumerFunc |-> b.consumerFunc,
    consumerID |-> b.consumerID ]

\* buildWithEnv, called by method op: it returns a pipeline whose start
\* runs the callback, or one of its constructors fails and it returns an
\* error.  Nothing keeps it from being called again on the same builder;
\* stream and the pump are those of the pipeline returned last.
buildWithEnv(op) ==
  /\ nOps < MaxOps
  /\ nOps' = nOps + 1
  /\ pre' = s
  /\ lastArg' = NoArg
  /\ s' = s
  /\ \/ /\ last' = [op |-> op, err |-> Nil]
        /\ stream' = BuiltStream(s)
        /\ built' = (built \/ s.producerChan # Nil)
        /\ pumpPc' = "init"
     \/ /\ last' = [op |-> op, err |-> ErrBuild]
        /\ UNCHANGED <<stream, built, pumpPc>>
  /\ UNCHANGED <<registered, uuidNext, added, snaps, fieldArgs>>
  /\ UNCHANGED <<handler, pc, ctxDone, ctxAtCall, tran, ret, sends, receiving,
                 inflight, acking, decided, resolved>>
  /\ UNCHANGED <<pipeOpen, emitted, cur, idx, calls, handlerRes, outstanding,
                 ackCount, ackVal>>

\* Build: s.buildWithEnv(s.env.internal)
Build == buildWithEnv("Build")

\* BuildTraced: s.buildWithEnv(tenv) with the traced bundle of the
\* environment; the pipeline and the error are those of buildWithEnv, and a
\* summary of the tracing comes with them.
BuildTraced == buildWithEnv("BuildTraced")

\* ============================================= processors and the setters
\* Most Add*YAML and Set*YAML calls of one run of the specification that has
\* every YAML method.
MaxYAMLOps == 2

ProcessorFragments ==
  { Fragment(TRUE, TRUE, TRUE, ComponentConfig("", "mapping", "m1")),
    Fragment(TRUE, TRUE, TRUE, ComponentConfig("", "mapping", "m2")),
    Fragment(TRUE, FALSE, TRUE, ComponentConfig("", "mapping", "m3")),
    Fragment(TRUE, FALSE, FALSE, ComponentConfig("", "noop", "")),
    Fragment(FALSE, FALSE, FALSE, ComponentConfig("", "noop", "")) }

BufferFragments ==
  { Fragment(TRUE, TRUE, TRUE, ComponentConfig("", "memory", "b1")),
    Fragment(TRUE, TRUE, TRUE, ComponentConfig("", "memory", "b2")),
    Fragment(TRUE, FALSE, TRUE, ComponentConfig("", "memory", "b3")),
    Fragment(TRUE, FALSE, FALSE, BufferNewConfig),
    Fragment(FALSE, FALSE, FALSE, BufferNewConfig) }

MetricsFragments ==
  { Fragment(TRUE, TRUE, TRUE, ComponentConfig("", "prometheus", "x1")),
    Fragment(TRUE, FALSE, TRUE, ComponentConfig("", "prometheus", "x2")),
    Fragment(TRUE, FALSE, FALSE, MetricsNewConfig),
    Fragment(FALSE, FALSE, FALSE, MetricsNewConfig) }

\* A tracer text decodes when fromYAML can infer its type and decode the
\* node (part_000, 62-76).
TracerFragments ==
  { Fragment(TRUE, TRUE, TRUE, ComponentConfig("", "jaeger", "t1")),
    Fragment(TRUE, FALSE, TRUE, ComponentConfig("", "jaeger", "t2")),
    Fragment(TRUE, FALSE, FALSE, TracerNewConfig),
    Fragment(FALSE, FALSE, FALSE, TracerNewConfig) }

\* A logger text decodes when spec.ParsedConfigFromAny and log.FromParsed
\* both succeed.
LoggerFragments ==
  { Fragment(TRUE, TRUE, TRUE, [LogLevel |-> "DEBUG"]),
    Fragment(TRUE, FALSE, TRUE, [LogLevel |-> "TRACE"]),
    Fragment(TRUE, FALSE, FALSE, LogNewConfig),
    Fragment(FALSE, FALSE, FALSE, LogNewConfig) }

\* AddProcessorYAML that puts the new config in front of the earlier ones.
AddProcessorYAMLPrepending ==
  /\ \E frag \in ProcessorFragments :
       /\ ReturnedFor("AddProcessorYAML", YAMLError(s, frag), <<frag>>)
       /\ s' = IF YAMLError(s, frag) = Nil
               THEN [s EXCEPT !.processors = <<frag.conf>> \o @]
               ELSE s
       /\ added' = IF YAMLError(s, frag) = Nil
                   THEN [added EXCEPT !.processors = Append(@, frag.conf)]
                   ELSE added
  /\ UNCHANGED <<registered, uuidNext, producerVars, consumerVars>>

\* s.processors = append(s.processors, pconf)
AddProcessorYAML ==
  /\ \E frag \in ProcessorFragments :
       /\ ReturnedFor("AddProcessorYAML", YAMLError(s, frag), <<frag>>)
       /\ s' = IF YAMLError(s, frag) = Nil
               THEN [s EXCEPT !.processors = Append(@, frag.conf)]
               ELSE s
       /\ added' = IF YAMLError(s, frag) = Nil
                   THEN [added EXCEPT !.processors = Append(@, frag.conf)]
                   ELSE added
  /\ UNCHANGED <<registered, uuidNext, producerVars, consumerVars>>

\* SetBufferYAML that assigns what the decoder returned before it looks at
\* the decoder's error.
SetBufferYAMLUnchecked ==
  /\ \E frag \in BufferFragments :
       /\ ReturnedFor("SetBufferYAML", YAMLError(s, frag), <<frag>>)
       /\ s' = IF YAMLError(s, frag) = Nil
               THEN [s EXCEPT !.buffer = frag.conf]
               ELSE IF YAMLError(s, frag) = ErrConfig
               THEN [s EXCEPT !.buffer = ComponentConfig("", "", "")]
               ELSE s
       /\ added' = IF YAMLError(s, frag) = Nil
                   THEN [added EXCEPT !.buffer = Append(@, frag.conf)]
                   ELSE added
  /\ UNCHANGED <<registered, uuidNext, producerVars, consumerVars>>

\* s.buffer = bconf
SetBufferYAML ==
  /\ \E frag \in BufferFragments :
       /\ ReturnedFor("SetBufferYAML", YAMLError(s, frag), <<frag>>)
       /\ s' = IF YAMLError(s, frag) = Nil
               THEN [s EXCEPT !.buffer = frag.conf]
               ELSE s
       /\ added' = IF YAMLError(s, frag) = Nil
                   THEN [added EXCEPT !.buffer = Append(@, frag.conf)]
                   ELSE added
  /\ UNCHANGED <<registered, uuidNext, producerVars, consumerVars>>

\* s.metrics = mconf
SetMetricsYAML ==
  /\ \E frag \in MetricsFragments :
       /\ ReturnedFor("SetMetricsYAML", YAMLError(s, frag), <<frag>>)
       /\ s' = IF YAMLError(s, frag) = Nil
               THEN [s EXCEPT !.metrics = frag.conf]
               ELSE s
  /\ UNCHANGED <<registered, uuidNext, added, producerVars, consumerVars>>

\* s.tracer = tconf
SetTracerYAML ==
  /\ \E frag \in TracerFragments :
       /\ ReturnedFor("SetTracerYAML", YAMLError(s, frag), <<frag>>)
       /\ s' = IF YAMLError(s, frag) = Nil
               THEN [s EXCEPT !.tracer = frag.conf]
               ELSE s
  /\ UNCHANGED <<registered, uuidNext, added, producerVars, consumerVars>>

\* s.logger = lconf
SetLoggerYAML ==
  /\ \E frag \in LoggerFragments :
       /\ ReturnedFor("SetLoggerYAML", YAMLError(s, frag), <<frag>>)
       /\ s' = IF YAMLError(s, frag) = Nil
               THEN [s EXCEPT !.logger = frag.conf]
               ELSE s
  /\ UNCHANGED <<registered, uuidNext, added, producerVars, consumerVars>>

\* The processor chain and the buffer of a builder, and its snapshots.
NextPipeline ==
  \/ AddProcessorYAML
  \/ SetBufferYAML
  \/ DisableLinting
  \/ AsYAML

SpecPipeline == Init /\ [][NextPipeline]_vars

\* Every method that takes a YAML text, on a builder that may have a
\* producer registered and linting disabled, for MaxYAMLOps calls.
NextYAML ==
  \/ nOps < MaxYAMLOps /\ AddProducerFunc
  \/ nOps < MaxYAMLOps /\ DisableLinting
  \/ nOps < MaxYAMLOps /\ AddInputYAML
  \/ nOps < MaxYAMLOps /\ AddProcessorYAML
  \/ nOps < MaxYAMLOps /\ AddOutputYAML
  \/ nOps < MaxYAMLOps /\ AddCacheYAML
  \/ nOps < MaxYAMLOps /\ AddRateLimitYAML
  \/ nOps < MaxYAMLOps /\ SetBufferYAML
  \/ nOps < MaxYAMLOps /\ SetMetricsYAML
  \/ nOps < MaxYAMLOps /\ SetTracerYAML
  \/ nOps < MaxYAMLOps /\ SetLoggerYAML
  \/ nOps < MaxYAMLOps /\ SetYAML

SpecYAML == Init /\ [][NextYAML]_vars

\* A whole document replacing a state that earlier calls have set.
NextReplace ==
  \/ SetOutputBrokerPattern
  \/ SetThreads
  \/ AddOutputYAML
  \/ SetYAML

SpecReplace == Init /\ [][NextReplace]_vars

\* ================================================ the producer closure
\* Messages handed to the producer closure: one part, batches of at most
\* MaxSendLen messages.
SendMessages == {NewInternalMessage("a")}
SendBatches == SeqsUpTo(SendMessages, MaxSendLen)

\* tmpMsg := message.Batch{m.part}
SinglePayload(m) == <<m.part>>
\* tmpMsg[i] = m.part for i, m := range b
BatchPayload(b) == [i \in 1..Len(b) |-> b[i].part]

\* Mutant: one response channel made at registration and shared by all calls.
SharedResChan(p) == 0

\* resChan := make(chan error): a channel of the call's own.
NewResChan(p) == p

\* message.NewTransaction(tmpMsg, resChan)
NewTransaction(payload, resChan) == [payload |-> payload, resChan |-> resChan]

\* The caller invokes the closure with a message (or batch) and a context
\* that may already be cancelled; the closure builds its transaction.
Call(p) ==
  /\ pc[p] = "idle"
  /\ \E cancelled \in BOOLEAN :
       /\ ctxDone' = [ctxDone EXCEPT ![p] = cancelled]
       /\ ctxAtCall' = [ctxAtCall EXCEPT ![p] = cancelled]
  /\ \/ /\ handler = "msg"
        /\ \E m \in SendMessages :
             tran' = [tran EXCEPT ![p] = NewTransaction(SinglePayload(m), NewResChan(p))]
     \/ /\ handler = "batch"
        /\ \E b \in SendBatches :
             tran' = [tran EXCEPT ![p] = NewTransaction(BatchPayload(b), NewResChan(p))]
  /\ pc' = [pc EXCEPT ![p] = "select1"]
  /\ UNCHANGED <<handler, built, ret, sends, receiving, inflight, acking, decided, resolved>>
  /\ UNCHANGED <<builderVars, consumerVars>>

\* The caller's context is cancelled while the call is running.
CtxCancel(p) ==
  /\ pc[p] \in {"select1", "select2"}
  /\ ~ctxDone[p]
  /\ ctxDone' = [ctxDone EXCEPT ![p] = TRUE]
  /\ UNCHANGED <<handler, built, pc, ctxAtCall, tran, ret, sends, receiving,
                 inflight, acking, decided, resolved>>
  /\ UNCHANGED <<builderVars, consumerVars>>

\* Mutant: the closure returns nil as soon as the transaction is sent.
HandlerSendNoWait(p) ==
  /\ pc[p] = "select1"
  /\ receiving
  /\ receiving' = FALSE
  /\ inflight' = inflight \cup {p}
  /\ sends' = [sends EXCEPT ![p] = @ + 1]
  /\ ret' = [ret EXCEPT ![p] = Nil]
  /\ pc' = [pc EXCEPT ![p] = "done"]
  /\ UNCHANGED <<handler, built, ctxDone, ctxAtCall, tran, acking, decided, resolved>>
  /\ UNCHANGED <<builderVars, consumerVars>>

\* First select, case tChan <- transaction: enabled when the pipeline is
\* receiving from the channel, whether or not ctx.Done() is ready too.
HandlerSend(p) ==
  /\ pc[p] = "select1"
  /\ receiving
  /\ receiving' = FALSE
  /\ inflight' = inflight \cup {p}
  /\ sends' = [sends EXCEPT ![p] = @ + 1]
  /\ pc' = [pc EXCEPT ![p] = "select2"]
  /\ UNCHANGED <<handler, built, ctxDone, ctxAtCall, tran, ret, acking, decided, resolved>>
  /\ UNCHANGED <<builderVars, consumerVars>>

\* First select, case <-ctx.Done(): return ctx.Err().
HandlerCancel1(p) ==
  /\ pc[p] = "select1"
  /\ ctxDone[p]
  /\ ret' = [ret EXCEPT ![p] = ErrCtx]
  /\ pc' = [pc EXCEPT ![p] = "done"]
  /\ UNCHANGED <<handler, built, ctxDone, ctxAtCall, tran, sends, receiving,
                 inflight, acking, decided, resolved>>
  /\ UNCHANGED <<builderVars, consumerVars>>

\* Mutant: a delivery failure is reported as ctx.Err().
HandlerRecvAsCancel(p) ==
  /\ pc[p] = "select2"
  /\ \E a \in acking :
       /\ a.ch = tran[p].resChan
       /\ acking' = acking \ {a}
       /\ resolved' = resolved \cup {a.tx}
       /\ ret' = [ret EXCEPT ![p] = IF a.res = Nil THEN Nil ELSE ErrCtx]
  /\ pc' = [pc EXCEPT ![p] = "done"]
  /\ UNCHANGED <<handler, built, ctxDone, ctxAtCall, tran, sends, receiving,
                 inflight, decided>>
  /\ UNCHANGED <<builderVars, consumerVars>>

\* Second select, case res := <-resChan: return res.
HandlerRecv(p) ==
  /\ pc[p] = "select2"
  /\ \E a \in acking :
       /\ a.ch = tran[p].resChan
       /\ acking' = acking \ {a}
       /\ resolved' = resolved \cup {a.tx}
       /\ ret' = [ret EXCEPT ![p] = a.res]
  /\ pc' = [pc EXCEPT ![p] = "done"]
  /\ UNCHANGED <<handler, built, ctxDone, ctxAtCall, tran, sends, receiving,
                 inflight, decided>>
  /\ UNCHANGED <<builderVars, consumerVars>>

\* Mutant: the second select gives up the wait without ctx.Done() firing.
HandlerCancel2Unguarded(p) ==
  /\ pc[p] = "select2"
  /\ ret' = [ret EXCEPT ![p] = ErrCtx]
  /\ pc' = [pc EXCEPT ![p] = "done"]
  /\ UNCHANGED <<handler, built, ctxDone, ctxAtCall, tran, sends, receiving,
                 inflight, acking, decided, resolved>>
  /\ UNCHANGED <<builderVars, consumerVars>>

\* Mutant: the second select has no case for ctx.Done(); the closure stays
\* in it when the context is cancelled.
HandlerCancel2Ignored(p) ==
  /\ pc[p] = "select2"
  /\ ctxDone[p]
  /\ UNCHANGED <<handler, built, pc, ctxDone, ctxAtCall, tran, ret, sends,
                 receiving, inflight, acking, decided, resolved>>
  /\ UNCHANGED <<builderVars, consumerVars>>

\* Second select, case <-ctx.Done(): return ctx.Err().
HandlerCancel2(p) ==
  /\ pc[p] = "select2"
  /\ ctxDone[p]
  /\ ret' = [ret EXCEPT ![p] = ErrCtx]
  /\ pc' = [pc EXCEPT ![p] = "done"]
  /\ UNCHANGED <<handler, built, ctxDone, ctxAtCall, tran, sends, receiving,
                 inflight, acking, decided, resolved>>
  /\ UNCHANGED <<builderVars, consumerVars>>

\* buildWithEnv: mgr.SetPipe(s.producerID, s.producerChan); from here on the
\* pipeline's inproc input reads the channel.
BindProducerChan ==
  /\ ~built
  /\ s.producerChan # Nil
  /\ built' = TRUE
  /\ UNCHANGED <<handler, pc, ctxDone, ctxAtCall, tran, ret, sends, receiving,
                 inflight, acking, decided, resolved>>
  /\ UNCHANGED <<builderVars, consumerVars>>

\* The pipeline blocks in a receive from the producer channel.
PipeReceive ==
  /\ built
  /\ ~receiving
  /\ receiving' = TRUE
  /\ UNCHANGED <<handler, built, pc, ctxDone, ctxAtCall, tran, ret, sends,
                 inflight, acking, decided, resolved>>
  /\ UNCHANGED <<builderVars, consumerVars>>

\* The pipeline resolves an accepted transaction with result r: Ack sends r
\* on the transaction's response channel and blocks until it is received.
PipeAck(q) ==
  /\ q \in inflight
  /\ \E r \in PipelineResults :
       /\ acking' = acking \cup {[tx |-> q, ch |-> tran[q].resChan, res |-> r]}
       /\ decided' = [decided EXCEPT ![q] = r]
  /\ inflight' = inflight \ {q}
  /\ UNCHANGED <<handler, built, pc, ctxDone, ctxAtCall, tran, ret, sends,
                 receiving, resolved>>
  /\ UNCHANGED <<builderVars, consumerVars>>

\* After AddProducerFunc or AddBatchProducerFunc on a new builder.
InitProducer ==
  /\ s = RegisterProducer(NewStreamBuilder, UUID(1))
  /\ pre = NewStreamBuilder
  /\ \E op \in {"AddProducerFunc", "AddBatchProducerFunc"} :
       /\ last = [op |-> op, err |-> Nil]
       /\ handler = IF op = "AddProducerFunc" THEN "msg" ELSE "batch"
  /\ nOps = 1
  /\ registered = [producer |-> 1, consumer |-> 0]
  /\ uuidNext = 1
  /\ lastArg = NoArg
  /\ added = [NoneAdded EXCEPT !.inputs = <<InprocConfig(InputNewConfig, UUID(1))>>]
  /\ snaps = <<>>
  /\ fieldArgs = <<>>
  /\ stream = NoStream
  /\ built = FALSE
  /\ pc = [p \in Callers |-> "idle"]
  /\ ctxDone = [p \in Callers |-> FALSE]
  /\ ctxAtCall = [p \in Callers |-> FALSE]
  /\ tran = [p \in Callers |-> NoTran]
  /\ ret = [p \in Callers |-> Nil]
  /\ sends = [p \in Callers |-> 0]
  /\ receiving = FALSE
  /\ inflight = {}
  /\ acking = {}
  /\ decided = [p \in Callers |-> "none"]
  /\ resolved = {}
  /\ ConsumerIdle

NextProducer ==
  \/ BindProducerChan
  \/ PipeReceive
  \/ \E p \in Callers : Call(p)
  \/ \E p \in Callers : CtxCancel(p)
  \/ \E p \in Callers : HandlerSend(p)
  \/ \E p \in Callers : HandlerCancel1(p)
  \/ \E p \in Callers : HandlerRecv(p)
  \/ \E p \in Callers : HandlerCancel2(p)
  \/ \E q \in Callers : PipeAck(q)

SpecProducer == InitProducer /\ [][NextProducer]_vars

\* The callers of the closure in the specification with fairness.
MaxFairCallers == 1
FairCallers == 1..MaxFairCallers

NextProducerFair ==
  \/ BindProducerChan
  \/ PipeReceive
  \/ \E p \in FairCallers : Call(p)
  \/ \E p \in FairCallers : CtxCancel(p)
  \/ \E p \in FairCallers : HandlerSend(p)
  \/ \E p \in FairCallers : HandlerCancel1(p)
  \/ \E p \in FairCallers : HandlerRecv(p)
  \/ \E p \in FairCallers : HandlerCancel2(p)
  \/ \E q \in FairCallers : PipeAck(q)

\* A closure blocked in a select one of whose cases stays ready goes on:
\* the goroutine of the call is scheduled.  Nothing is assumed of the
\* caller's context, of Build or of the pipeline.
FairProducer ==
  \A p \in FairCallers :
    /\ WF_vars(HandlerSend(p) \/ HandlerCancel1(p))
    /\ WF_vars(HandlerRecv(p) \/ HandlerCancel2(p))

SpecProducerFair == InitProducer /\ [][NextProducerFair]_vars /\ FairProducer

\* ==================================================== the consumer pump
\* batch[i] = NewInternalMessage(part) over tran.Payload.Iter
ToMessageBatch(payload) == [i \in 1..Len(payload) |-> NewInternalMessage(payload[i])]

Invocation(arg, res) == [arg |-> arg, res |-> res]

\* The stream starts and runs the callback of buildWithEnv: runConsumerFunc
\* returns nil without a pump when s.consumerFunc is nil, returns the error
\* of mgr.GetPipe(s.consumerID), which the callback logs, when the manager
\* has no such pipe, and starts the pump goroutine otherwise.  The manager
\* has the pipes its inproc outputs have set by then.
RunConsumerFunc ==
  /\ pumpPc = "init"
  /\ IF s.consumerFunc = NilFunc
     THEN pumpPc' = "off"
     ELSE \E pipeFound \in (IF s.consumerID \in stream.pipes
                             THEN BOOLEAN ELSE {FALSE}) :
            pumpPc' = IF pipeFound THEN "recv" ELSE "failed"
  /\ UNCHANGED <<pipeOpen, emitted, cur, idx, calls, handlerRes, outstanding,
                 ackCount, ackVal>>
  /\ UNCHANGED <<builderVars, producerVars>>

\* tran, open := <-tChan with open: the pipeline emits its next transaction.
PumpRecv ==
  /\ pumpPc = "recv"
  /\ pipeOpen
  /\ emitted < MaxTx
  /\ \E payload \in PartBatches :
       cur' = [id |-> emitted + 1, payload |-> payload]
  /\ emitted' = emitted + 1
  /\ outstanding' = outstanding \cup {emitted + 1}
  /\ idx' = 0
  /\ calls' = <<>>
  /\ handlerRes' = Nil
  /\ pumpPc' = "call"
  /\ UNCHANGED <<pipeOpen, ackCount, ackVal>>
  /\ UNCHANGED <<builderVars, producerVars>>

\* Mutant: the pump does not look at open and goes on with the zero
\* transaction that a receive from a closed channel yields.
PumpClosedGoesOn ==
  /\ pumpPc = "recv"
  /\ ~pipeOpen
  /\ cur' = NoCur
  /\ idx' = 0
  /\ calls' = <<>>
  /\ handlerRes' = Nil
  /\ pumpPc' = "call"
  /\ UNCHANGED <<pipeOpen, emitted, outstanding, ackCount, ackVal>>
  /\ UNCHANGED <<builderVars, producerVars>>

\* tran, open := <-tChan with !open: return.
PumpClosed ==
  /\ pumpPc = "recv"
  /\ ~pipeOpen
  /\ pumpPc' = "exit"
  /\ UNCHANGED <<pipeOpen, emitted, cur, idx, calls, handlerRes, outstanding,
                 ackCount, ackVal>>
  /\ UNCHANGED <<builderVars, producerVars>>

\* s.consumerFunc(ctx, batch) where consumerFunc is the handler given to
\* AddBatchConsumerFunc: one invocation with the whole batch.
PumpCallBatch ==
  /\ pumpPc = "call"
  /\ s.consumerFunc.kind = "batch"
  /\ \E r \in HandlerResults :
       /\ calls' = Append(calls, Invocation(ToMessageBatch(cur.payload), r))
       /\ handlerRes' = r
  /\ pumpPc' = "ack"
  /\ UNCHANGED <<pipeOpen, emitted, cur, idx, outstanding, ackCount, ackVal>>
  /\ UNCHANGED <<builderVars, producerVars>>

\* Mutant: the wrapper remembers the error and goes on with the next message.
PumpCallMessageGoOn ==
  /\ pumpPc = "call"
  /\ s.consumerFunc.kind = "msg"
  /\ IF idx < Len(cur.payload)
     THEN IF s.consumerFunc.fn = NilFn
          THEN /\ pumpPc' = "panic"
               /\ UNCHANGED <<idx, calls, handlerRes>>
          ELSE \E r \in HandlerResults :
                 /\ calls' = Append(calls,
                               Invocation(ToMessageBatch(cur.payload)[idx + 1], r))
                 /\ handlerRes' = IF r # Nil THEN r ELSE handlerRes
                 /\ idx' = idx + 1
                 /\ pumpPc' = pumpPc
     ELSE /\ pumpPc' = "ack"
          /\ UNCHANGED <<idx, calls, handlerRes>>
  /\ UNCHANGED <<pipeOpen, emitted, cur, outstanding, ackCount, ackVal>>
  /\ UNCHANGED <<builderVars, producerVars>>

\* s.consumerFunc(ctx, batch) where consumerFunc is the wrapper made by
\* AddConsumerFunc, one loop iteration per step: fn is called on the next
\* message and the wrapper returns its error if it is not nil; past the last
\* message the wrapper returns nil. Calling a nil fn panics.
PumpCallMessage ==
  /\ pumpPc = "call"
  /\ s.consumerFunc.kind = "msg"
  /\ IF idx < Len(cur.payload)
     THEN IF s.consumerFunc.fn = NilFn
          THEN /\ pumpPc' = "panic"
               /\ UNCHANGED <<idx, calls, handlerRes>>
          ELSE \E r \in HandlerResults :
                 /\ calls' = Append(calls,
                               Invocation(ToMessageBatch(cur.payload)[idx + 1], r))
                 /\ IF r # Nil
                    THEN /\ handlerRes' = r
                         /\ pumpPc' = "ack"
                         /\ idx' = idx
                    ELSE /\ idx' = idx + 1
                         /\ UNCHANGED <<handlerRes, pumpPc>>
     ELSE /\ handlerRes' = Nil
          /\ pumpPc' = "ack"
          /\ UNCHANGED <<idx, calls>>
  /\ UNCHANGED <<pipeOpen, emitted, cur, outstanding, ackCount, ackVal>>
  /\ UNCHANGED <<builderVars, producerVars>>

\* Mutant: the acknowledgement is left to run on its own and the pump goes
\* on to the next receive.
PumpAckDetached ==
  /\ pumpPc = "ack"
  /\ pumpPc' = "recv"
  /\ UNCHANGED <<pipeOpen, emitted, cur, idx, calls, handlerRes, outstanding,
                 ackCount, ackVal>>
  /\ UNCHANGED <<builderVars, producerVars>>

\* Mutant: the acknowledgement drops the handler's error and reports nil.
PumpAckDropsError ==
  /\ pumpPc = "ack"
  /\ ackCount' = [ackCount EXCEPT ![cur.id] = @ + 1]
  /\ ackVal' = [ackVal EXCEPT ![cur.id] = Nil]
  /\ outstanding' = outstanding \ {cur.id}
  /\ pumpPc' = "recv"
  /\ UNCHANGED <<pipeOpen, emitted, cur, idx, calls, handlerRes>>
  /\ UNCHANGED <<builderVars, producerVars>>

\* _ = tran.Ack(context.Background(), err): returns once the pipeline has
\* taken the result; the loop then goes back to the receive.
PumpAck ==
  /\ pumpPc = "ack"
  /\ ackCount' = [ackCount EXCEPT ![cur.id] = @ + 1]
  /\ ackVal' = [ackVal EXCEPT ![cur.id] = handlerRes]
  /\ outstanding' = outstanding \ {cur.id}
  /\ pumpPc' = "recv"
  /\ UNCHANGED <<pipeOpen, emitted, cur, idx, calls, handlerRes>>
  /\ UNCHANGED <<builderVars, producerVars>>

\* The pipeline closes the synthetic output's channel.
PipeClose ==
  /\ pumpPc \notin {"init", "off", "failed"}
  /\ pipeOpen
  /\ pipeOpen' = FALSE
  /\ UNCHANGED <<pumpPc, emitted, cur, idx, calls, handlerRes, outstanding,
                 ackCount, ackVal>>
  /\ UNCHANGED <<builderVars, producerVars>>

ConsumerFuncs ==
  {PerMessageFunc(fn) : fn \in Handlers} \cup {BatchFunc(fn) : fn \in Handlers}

\* After AddConsumerFunc or AddBatchConsumerFunc on a new builder and Build.
InitConsumer ==
  /\ \E fnc \in ConsumerFuncs :
       /\ s = RegisterConsumer(NewStreamBuilder, fnc, UUID(1))
       /\ last = [op |-> IF fnc.kind = "msg" THEN "AddConsumerFunc"
                         ELSE "AddBatchConsumerFunc",
                  err |-> Nil]
  /\ pre = NewStreamBuilder
  /\ nOps = 1
  /\ registered = [producer |-> 0, consumer |-> 1]
  /\ uuidNext = 1
  /\ lastArg = NoArg
  /\ added = [NoneAdded EXCEPT !.outputs = <<InprocConfig(OutputNewConfig, UUID(1))>>]
  /\ snaps = <<>>
  /\ fieldArgs = <<>>
  /\ stream = BuiltStream(s)
  /\ ProducerIdle
  /\ pumpPc = "init"
  /\ pipeOpen = TRUE
  /\ emitted = 0
  /\ cur = NoCur
  /\ idx = 0
  /\ calls = <<>>
  /\ handlerRes = Nil
  /\ outstanding = {}
  /\ ackCount = [t \in TxIds |-> 0]
  /\ ackVal = [t \in TxIds |-> Nil]

NextConsumer ==
  \/ RunConsumerFunc
  \/ PumpRecv
  \/ PumpClosed
  \/ PumpCallBatch
  \/ PumpCallMessage
  \/ PumpAck
  \/ PipeClose

SpecConsumer == InitConsumer /\ [][NextConsumer]_vars

\* ------------------------------------------- the builder, Build and the run
NextBuild ==
  \/ AddProducerFunc
  \/ AddConsumerFunc
  \/ AddBatchConsumerFunc
  \/ AddOutputYAML
  \/ Build
  \/ BuildTraced
  \/ RunConsumerFunc

SpecBuild == Init /\ [][NextBuild]_vars

\* ------------------------------------------ claims on the producer closure
\* C1: a call made with an already cancelled context returns the
\* cancellation error, its transaction never reaches the pipeline and no
\* acknowledgement of it is ever resolved, in every interleaving.
C1_CancelledCallNeverDelivered ==
  \A p \in Callers :
    ctxAtCall[p] =>
      /\ sends[p] = 0
      /\ p \notin inflight
      /\ decided[p] = "none"
      /\ p \notin resolved
      /\ (pc[p] = "done" => ret[p] = ErrCtx)

\* C2: a call has returned only if the pipeline accepted its transaction and
\* the acknowledgement was resolved, or its context was cancelled; when the
\* context was never cancelled the value returned is the result the pipeline
\* resolved that transaction with.
C2_ReturnsAfterAckOrCancel ==
  \A p \in Callers :
    pc[p] = "done" =>
      /\ ctxDone[p] \/ (sends[p] = 1 /\ p \in resolved)
      /\ ~ctxDone[p] => (ret[p] \in PipelineResults /\ ret[p] = decided[p])

C2_Witness ==
  \E p \in Callers :
    /\ pc[p] = "done" /\ ~ctxDone[p]
    /\ p \in resolved /\ ret[p] = ErrRejected

\* C8: concurrent calls are independent: every call has a response channel
\* of its own, a call that returns an acknowledgement result returns the one
\* of its own transaction, and a transaction goes to the pipeline at most
\* once.
C8_CallsAreIndependent ==
  /\ \A p \in Callers : sends[p] <= 1
  /\ \A p \in Callers :
       (pc[p] = "done" /\ ret[p] # ErrCtx) =>
         (p \in resolved /\ ret[p] = decided[p])
  /\ \A p, q \in Callers :
       (p # q /\ pc[p] # "idle" /\ pc[q] # "idle") =>
         tran[p].resChan # tran[q].resChan
  /\ \A a \in acking : a.ch = tran[a.tx].resChan

C8_Witness ==
  \E p, q \in Callers :
    /\ p # q
    /\ pc[p] = "done" /\ ret[p] = Nil /\ ~ctxDone[p]
    /\ pc[q] = "done" /\ ret[q] = ErrRejected /\ ~ctxDone[q]

\* C9 as stated: whenever the pipeline is resolving the acknowledgement of a
\* producer transaction, the call that created it is waiting to receive it.
C9_AckAlwaysHasReceiver ==
  \A a \in acking : pc[a.tx] = "select2"

\* C9 amended: the acknowledgement of a call whose context has not been
\* cancelled always has that call waiting for it; the pipeline finds no
\* receiver only for a call whose context was cancelled and which returned
\* the cancellation error.
C9_AckHasReceiverUnlessCancelled ==
  \A a \in acking :
    /\ ~ctxDone[a.tx] => pc[a.tx] = "select2"
    /\ pc[a.tx] # "select2" =>
         (pc[a.tx] = "done" /\ ctxDone[a.tx] /\ ret[a.tx] = ErrCtx)

C9_Witness ==
  /\ \E a \in acking : ~ctxDone[a.tx] /\ pc[a.tx] = "select2"
  /\ \E a \in acking : pc[a.tx] = "done" /\ ret[a.tx] = ErrCtx

\* C10: a call returns the cancellation error only if its context was
\* cancelled before an acknowledgement was received, and a received delivery
\* failure is returned as the pipeline's own error value, which is not the
\* cancellation error.
C10_CancelErrorOnlyWhenCancelled ==
  \A p \in Callers :
    pc[p] = "done" =>
      /\ ret[p] = ErrCtx => (ctxDone[p] /\ p \notin resolved)
      /\ p \in resolved => (ret[p] = decided[p] /\ ret[p] # ErrCtx)

C10_Witness ==
  \E p, q \in Callers :
    /\ pc[p] = "done" /\ ret[p] = ErrCtx /\ decided[p] = ErrRejected
    /\ pc[q] = "done" /\ ret[q] = ErrRejected /\ ctxDone[q]

\* -------------------------------------------- claims on the consumer pump
\* The pump holds a transaction whose handler invocations are in calls.
Holding == pumpPc \in {"call", "ack", "recv", "exit"} /\ cur.id # 0
\* s.consumerFunc has returned for the transaction the pump holds.
WrapperReturned == Holding /\ pumpPc # "call"
FirstFailure ==
  IF \E i \in 1..Len(calls) : calls[i].res # Nil
  THEN CHOOSE i \in 1..Len(calls) :
         /\ calls[i].res # Nil
         /\ \A j \in 1..(i - 1) : calls[j].res = Nil
  ELSE 0

\* C5: with a per-message consumer the handler is invoked on the messages of
\* the batch in order; if it first fails on message k (0-based) it has been
\* invoked exactly k+1 times, on messages 0..k and on none after k, and the
\* acknowledgement is that failure; if it fails on none it is invoked on all
\* n messages and the acknowledgement is nil.
C5_PerMessageStopsAtFirstFailure ==
  (s.consumerFunc.kind = "msg" /\ Holding) =>
    /\ Len(calls) <= Len(cur.payload)
    /\ \A i \in 1..Len(calls) :
         calls[i].arg = NewInternalMessage(cur.payload[i])
    /\ FirstFailure # 0 => Len(calls) = FirstFailure
    /\ WrapperReturned =>
         IF FirstFailure # 0
         THEN handlerRes = calls[FirstFailure].res
         ELSE Len(calls) = Len(cur.payload) /\ handlerRes = Nil
    /\ (pumpPc \in {"recv", "exit"}) =>
         (ackCount[cur.id] = 1 /\ ackVal[cur.id] = handlerRes)

\* A batch of 3 whose second message fails: two invocations, failure acked.
C5_Witness ==
  /\ s.consumerFunc.kind = "msg"
  /\ pumpPc = "recv"
  /\ Len(cur.payload) = 3
  /\ Len(calls) = 2
  /\ calls[1].res = Nil
  /\ calls[2].res = ErrHandler
  /\ ackVal[cur.id] = ErrHandler

\* C6: at most one transaction is outstanding: the pump takes the next
\* transaction only after the acknowledgement of the previous one has been
\* resolved, so the handler runs for one transaction at a time.
C6_OneOutstandingTransaction ==
  /\ Cardinality(outstanding) <= 1
  /\ pumpPc \in {"call", "ack", "panic"} => outstanding = {cur.id}
  /\ pumpPc \in {"init", "off", "recv", "exit"} => outstanding = {}
  /\ \A t \in TxIds : (t <= emitted /\ t # cur.id) => ackCount[t] = 1

C6_Witness ==
  /\ emitted = 2
  /\ pumpPc = "call"
  /\ Len(calls) = 1
  /\ ackCount[1] = 1
  /\ outstanding = {2}

\* C7: every transaction the pump received is acknowledged exactly once,
\* with the result the handler returned for it; a batch consumer is invoked
\* exactly once per transaction, with the whole batch.
C7_ExactlyOneAckWithHandlerResult ==
  /\ \A t \in TxIds :
       /\ ackCount[t] <= 1
       /\ (t > emitted \/ t \in outstanding) => ackCount[t] = 0
       /\ (t <= emitted /\ t \notin outstanding) => ackCount[t] = 1
  /\ (Holding /\ pumpPc \in {"recv", "exit"}) =>
       (ackCount[cur.id] = 1 /\ ackVal[cur.id] = handlerRes)
  /\ (s.consumerFunc.kind = "batch" /\ Holding) =>
       IF pumpPc = "call"
       THEN calls = <<>>
       ELSE calls = <<Invocation(ToMessageBatch(cur.payload), handlerRes)>>

C7_Witness ==
  /\ s.consumerFunc.kind = "batch"
  /\ pumpPc = "exit"
  /\ emitted = 2
  /\ Len(cur.payload) = 2
  /\ ackCount[1] = 1 /\ ackCount[2] = 1
  /\ ackVal[1] = Nil /\ ackVal[2] = ErrHandler

\* ------------------------------------------------- claims on the builder
ProducerOps == {"AddProducerFunc", "AddBatchProducerFunc"}
ConsumerOps == {"AddConsumerFunc", "AddBatchConsumerFunc"}

\* Successful registrations before the last operation.
RegisteredBefore ==
  [ producer |-> registered.producer
                   - (IF last.op \in ProducerOps /\ last.err = Nil THEN 1 ELSE 0),
    consumer |-> registered.consumer
                   - (IF last.op \in ConsumerOps /\ last.err = Nil THEN 1 ELSE 0) ]

\* C3: at most one producer registration and at most one consumer
\* registration succeed on a builder, for every handler argument; a later
\* call of the same kind returns the duplicate-registration error and leaves
\* the input list, the output list and the registered ids unchanged.
C3_AtMostOneRegistration ==
  /\ registered.producer <= 1
  /\ registered.consumer <= 1
  /\ (last.op \in ProducerOps /\ RegisteredBefore.producer >= 1)
       => /\ last.err = ErrDupProducer
          /\ s.inputs = pre.inputs /\ s.outputs = pre.outputs
          /\ s.producerID = pre.producerID /\ s.consumerID = pre.consumerID
  /\ (last.op \in ConsumerOps /\ RegisteredBefore.consumer >= 1)
       => /\ last.err = ErrDupConsumer
          /\ s.inputs = pre.inputs /\ s.outputs = pre.outputs
          /\ s.producerID = pre.producerID /\ s.consumerID = pre.consumerID

\* C4: SetYAML called after a producer or a consumer has been registered
\* fails with a mutation-conflict error and leaves every field of the
\* builder unchanged, whatever document is passed.
C4_SetYAMLAfterRegistration ==
  (last.op = "SetYAML"
     /\ (RegisteredBefore.producer >= 1 \/ RegisteredBefore.consumer >= 1))
    => (last.err \in ConflictErrors /\ s = pre)

\* --------------------------------------- claims on the resource registry
ResourceOps == {"AddCacheYAML", "AddRateLimitYAML"}

\* The list the last resource operation works on, in builder b.
ResourceList(b) ==
  IF last.op = "AddCacheYAML" THEN b.resources.ResourceCaches
  ELSE b.resources.ResourceRateLimits

\* The last operation was AddCacheYAML or AddRateLimitYAML with a text that
\* decodes to a config whose label a resource of the same kind carried.
CollidingCall ==
  /\ last.op \in ResourceOps
  /\ YAMLError(pre, lastArg[1]) = Nil
  /\ lastArg[1].conf.Label \in Labels(ResourceList(pre))

\* C11: a call of AddCacheYAML or AddRateLimitYAML whose config carries the
\* label of a resource of the same kind already in the builder fails with
\* the collision error, and the cache list and the rate-limit list are the
\* same after the call as before it.
C11_CollisionFailsAndKeepsLists ==
  CollidingCall =>
    /\ last.err = ErrCollision(lastArg[1].conf.Label)
    /\ s.resources.ResourceCaches = pre.resources.ResourceCaches
    /\ s.resources.ResourceRateLimits = pre.resources.ResourceRateLimits

\* A colliding call whose config differs from the resource it collides with,
\* made when both lists hold resources.
C11_Witness ==
  /\ CollidingCall
  /\ last.err = ErrCollision(lastArg[1].conf.Label)
  /\ \A i \in 1..Len(ResourceList(pre)) : ResourceList(pre)[i] # lastArg[1].conf
  /\ Len(s.resources.ResourceCaches) >= 1
  /\ Len(s.resources.ResourceRateLimits) >= 1

\* No two entries of a resource list share a label, and none has the empty
\* label.
LabelsValid(list) ==
  /\ \A i \in 1..Len(list) : list[i].Label # ""
  /\ \A i, j \in 1..Len(list) : list[i].Label = list[j].Label => i = j

\* C12: after any sequence of AddCacheYAML and AddRateLimitYAML calls every
\* resource has a non-empty label and no two resources of one kind share a
\* label (a cache and a rate limit may).
C12_LabelsUniquePerKind ==
  /\ LabelsValid(s.resources.ResourceCaches)
  /\ LabelsValid(s.resources.ResourceRateLimits)

\* Two caches and a rate limit are held, a cache and the rate limit share a
\* label, and calls without label and with a colliding label were made.
C12_Witness ==
  /\ Len(s.resources.ResourceCaches) = 2
  /\ Labels(s.resources.ResourceCaches) \cap Labels(s.resources.ResourceRateLimits) # {}
  /\ last.op \in ResourceOps
  /\ last.err \in {ErrCacheLabel, ErrRateLimitLabel}

\* ------------------------------------------------- claims on the snapshot
\* C13: when exactly one input config has been added, the snapshot's input
\* is that config, not wrapped in a broker; likewise for one output config
\* and the snapshot's output.
C13_SingleConfigIsNotWrapped ==
  /\ Len(added.inputs) = 1 => buildConfig(s).Input = added.inputs[1]
  /\ Len(added.outputs) = 1 => buildConfig(s).Output = added.outputs[1]

\* One input was added by a producer registration and one output by
\* AddOutputYAML.
C13_Witness ==
  /\ Len(added.inputs) = 1
  /\ added.inputs[1].Type = "inproc"
  /\ Len(added.outputs) = 1
  /\ added.outputs[1].Type = "drop"
  /\ buildConfig(s).Output.Type = "drop"

\* C14: when more than one input config has been added, by AddInputYAML
\* calls and a producer registration in any order, the snapshot's input is a
\* broker whose sub-input list is those configs in the order of their
\* addition; likewise for outputs and the broker's sub-output list.
C14_BrokerKeepsAdditionOrder ==
  /\ Len(added.inputs) > 1 =>
       /\ buildConfig(s).Input.Type = "broker"
       /\ buildConfig(s).Input.Plugin.inputs = added.inputs
  /\ Len(added.outputs) > 1 =>
       /\ buildConfig(s).Output.Type = "broker"
       /\ buildConfig(s).Output.Plugin.outputs = added.outputs

\* A producer registration after an AddInputYAML call, and two different
\* outputs.
C14_Witness ==
  /\ Len(added.inputs) = 2
  /\ added.inputs[1].Type = "generate"
  /\ added.inputs[2].Type = "inproc"
  /\ buildConfig(s).Input.Type = "broker"
  /\ Len(added.outputs) = 2
  /\ added.outputs[1] # added.outputs[2]
  /\ buildConfig(s).Output.Type = "broker"

\* The pattern symbol a broker config carries: <<p>>, or <<>> when its
\* plugin map has no "pattern" key.
CarriedPattern(conf) ==
  IF "pattern" \in DOMAIN conf.Plugin THEN <<conf.Plugin.pattern>> ELSE <<>>

\* C15: when more than one output config has been added, the synthesized
\* output broker carries a pattern symbol: fan_out when
\* SetOutputBrokerPattern was never called, otherwise the symbol it last set.
C15_BrokerCarriesPattern ==
  Len(added.outputs) > 1 =>
    CarriedPattern(buildConfig(s).Output) =
      IF added.pattern = <<>> THEN <<"fan_out">> ELSE added.pattern

\* C15 as the code has it: when more than one output config has been added,
\* the synthesized output broker carries the symbol last set by
\* SetOutputBrokerPattern if that symbol is not empty, and no pattern at all
\* when SetOutputBrokerPattern was never called or last set the empty symbol.
C15_BrokerCarriesPatternWhenSet ==
  Len(added.outputs) > 1 =>
    /\ buildConfig(s).Output.Type = "broker"
    /\ CarriedPattern(buildConfig(s).Output) =
         IF added.pattern \in {<<>>, <<"">>} THEN <<>> ELSE added.pattern

\* Two outputs under a pattern that was set twice, the second time to a
\* symbol other than fan_out.
C15_Witness ==
  /\ Len(added.outputs) = 2
  /\ last.op = "SetOutputBrokerPattern"
  /\ pre.outputBrokerPattern = "fan_out"
  /\ CarriedPattern(buildConfig(s).Output) = <<"round_robin">>

SnapshotOps == {"AsYAML", "WalkComponents"}

\* The last two snapshots were taken by consecutive operations.
ConsecutiveSnapshots == Len(snaps) = 2 /\ snaps[2].n = snaps[1].n + 1

\* The builder after a snapshot operation on builder b whose callback was
\* fn ("" for AsYAML, which has none): the callback's own SetThreads(2) is
\* the one mutating call such an operation can hold.
AfterCallback(b, fn, err) ==
  IF fn = "SetThreads" /\ err = Nil THEN [b EXCEPT !.threads = 2] ELSE b

\* C19: a snapshot (buildConfig, as AsYAML and WalkComponents take it) leaves
\* every field of the builder as it was, whether or not the operation that
\* took it then fails, so that the builder differs after the operation only
\* by what a callback given to WalkComponents did to it; and two snapshots
\* with no mutating call between them are equal.
C19_SnapshotDoesNotMutate ==
  /\ last.op = "AsYAML" => s = pre
  /\ last.op = "WalkComponents" =>
       s = AfterCallback(pre, lastArg[1], last.err)
  /\ (ConsecutiveSnapshots /\ ~(snaps[1].fn = "SetThreads" /\ snaps[1].encoded))
       => snaps[1].conf = snaps[2].conf

\* Two snapshots in a row of a builder whose input is synthesized from two
\* added inputs.
C19_Witness ==
  /\ last.op \in SnapshotOps
  /\ ConsecutiveSnapshots
  /\ Len(s.inputs) = 2
  /\ snaps[2].conf.Input.Type = "broker"

\* ------------------------------------------------- claims on SetFields
FieldsConflictErrors == {ErrFieldsProducer, ErrFieldsConsumer}

\* C16: SetFields called after a producer or a consumer has been registered
\* fails with the mutation-conflict error and leaves the builder as it was,
\* whatever list is passed.
C16_SetFieldsAfterRegistration ==
  (last.op = "SetFields" /\ (registered.producer >= 1 \/ registered.consumer >= 1))
    => (last.err \in FieldsConflictErrors /\ s = pre)

\* Path positions of list pv that hold something other than a string.
NonStringPaths(pv) == {i \in 1..Len(pv) : i % 2 = 1 /\ ~pv[i].str}

\* pv is not an even-length alternation of string path and value.
Malformed(pv) == Len(pv) % 2 # 0 \/ NonStringPaths(pv) # {}

MalformedErrors ==
  {ErrOddPathValues} \cup {ErrNotString(i) : i \in 0..MaxPathValues}

\* C17: SetFields called with a list that is not an even-length alternation
\* of string path and value fails with a malformed-list error and leaves the
\* builder as it was, also when earlier pairs of the list were well formed.
C17_MalformedListFails ==
  (last.op = "SetFields" /\ Malformed(fieldArgs))
    => (last.err \in MalformedErrors /\ s = pre)

\* No producer channel and no consumer func is set in builder b.
NothingRegistered(b) == b.producerChan = Nil /\ b.consumerFunc = NilFunc

\* The first path position of pv that holds no string.
FirstNonString(pv) ==
  CHOOSE i \in NonStringPaths(pv) : \A j \in NonStringPaths(pv) : i <= j

\* Every pair of pv before position i names a field of the schema and has a
\* value yaml encodes, and so has the value at position i + 1.
ReachesPair(pv, i) ==
  /\ \A j \in 1..(i - 1) : j % 2 = 1 =>
       pv[j].text \in SchemaPaths /\ pv[j + 1].encodes
  /\ pv[i + 1].encodes

\* C17 as the code has it: SetFields called with such a list fails and leaves
\* the builder as it was, also when earlier pairs were well formed.  The
\* error is the malformed-list error when no producer channel and no
\* consumer func is set and, for a non-string path, when every earlier pair
\* was written without error and the value next to it can be encoded, unless
\* the snapshot could not be encoded; otherwise it is the error of the check
\* that fails first.
C17_MalformedListFailsAtFirstCheck ==
  (last.op = "SetFields" /\ Malformed(fieldArgs))
    => /\ last.err # Nil
       /\ s = pre
       /\ (NothingRegistered(pre) /\ Len(fieldArgs) % 2 # 0)
            => last.err = ErrOddPathValues
       /\ (/\ NothingRegistered(pre)
           /\ Len(fieldArgs) % 2 = 0
           /\ ReachesPair(fieldArgs, FirstNonString(fieldArgs)))
            => last.err \in {ErrNotString(FirstNonString(fieldArgs) - 1),
                             ErrEncodeConfig}

\* A list whose first pair is well formed and whose third element is not a
\* string, passed to a builder that holds an input.
C17_Witness ==
  /\ last.op = "SetFields"
  /\ Len(fieldArgs) = 4
  /\ NonStringPaths(fieldArgs) = {3}
  /\ fieldArgs[1].text \in FieldPaths
  /\ last.err = ErrNotString(2)
  /\ Len(pre.inputs) >= 1

\* ----------------------------------------------- claims on the round trip
\* Two snapshots are equivalent when they encode to the same document: the
\* type-discriminator fields are left out of it and a synthesized broker and
\* the broker decoded from its encoding are told apart by nothing else.
Equivalent(c1, c2) == encodeConfig(c1) = encodeConfig(c2)

\* The last operation was SetYAML with the text that the operation before
\* it, AsYAML, returned.
RoundTripped ==
  /\ last.op = "SetYAML"
  /\ snaps # <<>>
  /\ snaps[Len(snaps)].n = nOps - 1
  /\ snaps[Len(snaps)].op = "AsYAML"
  /\ snaps[Len(snaps)].encoded
  /\ Len(lastArg) = 2
  /\ lastArg[2] = AsYAMLText(snaps[Len(snaps)].conf)

\* C18: for a builder with no producer or consumer registered, taking the
\* snapshot, rendering it with AsYAML, re-parsing the document with SetYAML
\* and taking the snapshot again yields a configuration equivalent to the
\* first, also when several inputs or outputs had been added and when an
\* HTTP multiplexer or a custom logger was set.
C18_RoundTrip ==
  (/\ RoundTripped
   /\ registered.producer = 0
   /\ registered.consumer = 0)
    => /\ last.err = Nil
       /\ snaps[Len(snaps)].conf = buildConfig(pre)
       /\ Equivalent(buildConfig(pre), buildConfig(s))

\* ------------------------------------------------------- claims on Build
\* The callback of the built pipeline has run.
CallbackRan == stream.built /\ pumpPc # "init"

\* What the callback does for a pipeline whose builder has consumer func fnc
\* and consumer id id: no pump, a pump, or a failed lookup of the pipe.
RunOutcomes(fnc, id) ==
  IF fnc = NilFunc THEN {"off"}
  ELSE IF id \in stream.pipes THEN {"recv", "failed"}
  ELSE {"failed"}

\* C20: after Build has returned a pipeline, no later mutation of the
\* builder changes the behaviour or the configuration of that pipeline: when
\* it is run, whether a consumer pump is started, for which consumer id and
\* with which handler is as the builder had it when Build returned.
C20_BuiltPipelineIgnoresLaterMutation ==
  CallbackRan =>
    /\ pumpPc \in RunOutcomes(stream.consumerFunc, stream.consumerID)
    /\ pumpPc = "recv" =>
         /\ s.consumerFunc = stream.consumerFunc
         /\ s.consumerID = stream.consumerID

\* The pump of the built pipeline has been started for its consumer.
PumpStarted == pumpPc \in {"recv", "call", "ack", "exit", "panic"}

\* C21: a Build that returns an error returns no pipeline, and a pipeline is
\* returned only when every step has succeeded, the start of the consumer
\* pump for a registered consumer included: a pipeline built from a builder
\* with a consumer has its pump started.
C21_PipelineOnlyAfterPumpStart ==
  /\ (last.op \in {"Build", "BuildTraced"} /\ last.err # Nil) => stream.at # nOps
  /\ (stream.built /\ stream.consumerFunc # NilFunc) => PumpStarted

\* ---------------------------------------------- claims on the YAML methods
\* The methods that take a YAML text.
YAMLOps ==
  {"AddInputYAML", "AddProcessorYAML", "AddOutputYAML", "AddCacheYAML",
   "AddRateLimitYAML", "SetBufferYAML", "SetMetricsYAML", "SetTracerYAML",
   "SetLoggerYAML", "SetYAML"}

\* C22: when linting has been disabled on the builder, no mutating operation
\* fails with a lint error: a text that parses is not rejected for a schema
\* violation.
C22_NoLintErrorWhenDisabled ==
  (last.op \in YAMLOps /\ pre.lintingDisabled) => last.err \notin LintErrors

\* The fields of the builder state that the data model names.
StateFields ==
  {"http", "inputs", "buffer", "processors", "threads", "outputs",
   "resources", "metrics", "tracer", "logger", "outputBrokerPattern"}

\* C23: a successful SetYAML overwrites every field of the builder state
\* that the data model names, the output-broker pattern included, so that
\* the state after it depends only on the document: it is the state the
\* same document gives a new builder.
C23_SetYAMLOverwritesEveryField ==
  (last.op = "SetYAML" /\ last.err = Nil) =>
    \A f \in StateFields :
      s[f] = setFromConfig(NewStreamBuilder, lastArg[1].conf)[f]

\* ------------------------------------------- claims on the order of writes
\* The indexes of the list at which path is given as a path.
Occurrences(pv, path) ==
  {i \in 1..Len(pv) : i % 2 = 1 /\ pv[i].str /\ pv[i].text = path}

LastOccurrence(pv, path) ==
  CHOOSE i \in Occurrences(pv, path) : \A j \in Occurrences(pv, path) : j <= i

\* The text of the field of the builder state that path names.
FieldText(b, path) ==
  IF path = "pipeline.threads" THEN ToString(b.threads) ELSE b.inputs[1].Label

\* C24: SetFields applies the pairs in the order given to one snapshot of
\* the state: after a successful call every path of the list holds the value
\* of its last occurrence, and a path the list does not have holds the value
\* the state had before the call.
C24_LastOccurrenceWins ==
  (last.op = "SetFields" /\ last.err = Nil) =>
    \A path \in FieldPaths :
      FieldText(s, path) =
        IF Occurrences(fieldArgs, path) = {}
        THEN encodeConfig(buildConfig(pre))[
               IF path = "pipeline.threads" THEN "pipeline" ELSE "input"][
               IF path = "pipeline.threads" THEN "threads" ELSE "label"]
        ELSE fieldArgs[LastOccurrence(fieldArgs, path) + 1].text

\* A successful call that wrote the thread count twice, 3 and then 4, on a
\* builder whose thread count had been set to 2.
C24_Witness ==
  /\ last.op = "SetFields"
  /\ last.err = Nil
  /\ pre.threads = 2
  /\ Len(fieldArgs) = 4
  /\ fieldArgs[1].text = "pipeline.threads"
  /\ fieldArgs[3].text = "pipeline.threads"
  /\ fieldArgs[2].text = "3"
  /\ fieldArgs[4].text = "4"
  /\ s.threads = 4

\* C25: a call of a method that takes a YAML text and returns an error, for
\* a text that does not parse, lint or decode, for an empty or a colliding
\* label, or for a builder with a producer registered, leaves every field
\* of the builder state as it was before the call.
C25_FailedCallKeepsState ==
  (last.op \in YAMLOps /\ last.err # Nil) => s = pre

\* A call that failed in the decoder, the last step before the assignment,
\* on a state an earlier call had changed: a buffer text that parses and
\* does not decode, on a builder with linting disabled.
C25_Witness ==
  /\ last.op = "SetBufferYAML"
  /\ last.err = ErrConfig
  /\ pre # NewStreamBuilder
  /\ s = pre

\* ------------------------------------- claims on processors and the buffer
\* C26: the snapshot's processor chain is the sequence of the configs of the
\* successful AddProcessorYAML calls in call order, and the snapshot's
\* buffer is the config of the last successful SetBufferYAML call, or the
\* default buffer when there was none.
C26_ProcessorsInOrderBufferLast ==
  /\ buildConfig(s).Processors = added.processors
  /\ buildConfig(s).Buffer =
       IF added.buffer = <<>> THEN BufferNewConfig
       ELSE added.buffer[Len(added.buffer)]

\* Two different processors were added and the buffer was set twice to
\* different configs: the state has the processors in call order and the
\* second buffer.
C26_Witness ==
  /\ Len(added.processors) = 2
  /\ added.processors[1] # added.processors[2]
  /\ Len(added.buffer) = 2
  /\ added.buffer[1] # added.buffer[2]
  /\ s.processors = added.processors
  /\ s.buffer = added.buffer[2]

\* -------------------------------------------- claims on the empty lists
\* C27: when no input config has been added the snapshot's input is the
\* default input config, with no broker around it, and when no output
\* config has been added the snapshot's output is the default output config,
\* to which no pattern is attached whether or not SetOutputBrokerPattern was
\* called.
C27_DefaultsWhenNothingAdded ==
  /\ added.inputs = <<>> => buildConfig(s).Input = InputNewConfig
  /\ added.outputs = <<>> =>
       /\ buildConfig(s).Output = OutputNewConfig
       /\ "pattern" \notin DOMAIN buildConfig(s).Output.Plugin

\* A snapshot was taken of a builder to which no input and no output had
\* been added and whose pattern had been set to round_robin.
C27_Witness ==
  /\ last.op = "AsYAML"
  /\ added.inputs = <<>>
  /\ added.outputs = <<>>
  /\ added.pattern = <<"round_robin">>
  /\ s.outputBrokerPattern = "round_robin"
  /\ snaps[Len(snaps)].conf.Input.Type = "stdin"
  /\ snaps[Len(snaps)].conf.Output.Type = "stdout"

\* -------------------------------------- claims on the synthetic endpoints
\* The positions of list that hold an inproc config.
InprocAt(list) == {i \in 1..Len(list) : list[i].Type = "inproc"}

\* list has exactly one inproc config, and its identifier is id.
OneEndpoint(list, id) ==
  /\ Cardinality(InprocAt(list)) = 1
  /\ \A i \in InprocAt(list) : list[i].Plugin = [value |-> id]

\* C28: in every state after a successful producer registration the input
\* list has exactly one synthetic inproc input, whose identifier is the
\* builder's producer id, and in every state after a successful consumer
\* registration the output list has exactly one synthetic inproc output,
\* whose identifier is the builder's consumer id: no later operation
\* removes, duplicates or re-identifies them.
C28_EndpointsStay ==
  /\ registered.producer >= 1 => OneEndpoint(s.inputs, s.producerID)
  /\ registered.consumer >= 1 => OneEndpoint(s.outputs, s.consumerID)

\* ------------------------------------- claims on the return of the closure
\* The call of caller p is blocked in one of the closure's two selects.
Blocked(p) == pc[p] \in {"select1", "select2"}

\* The pipeline has accepted the transaction of caller p and its
\* acknowledgement is on offer on the response channel.
AckOffered(p) == pc[p] = "select2" /\ \E a \in acking : a.tx = p

\* C29: every call of the producer closure whose cancellation signal has
\* fired returns, whether the pipeline never accepts the transaction,
\* accepts it and never acknowledges it, or was never built; and, under fair
\* scheduling, a call whose transaction the pipeline has accepted and
\* acknowledged returns, also when its signal never fires.
C29_CallReturns ==
  \A p \in FairCallers :
    /\ (Blocked(p) /\ ctxDone[p]) ~> (pc[p] = "done")
    /\ AckOffered(p) ~> (pc[p] = "done")

\* Caller 1 has returned the cancellation error on a pipeline that was never
\* built.
C29_Witness ==
  /\ ~built
  /\ pc[1] = "done"
  /\ ctxDone[1]
  /\ ~ctxAtCall[1]
  /\ ret[1] = ErrCtx

\* ------------------------------------- claims on the order and on the close
\* A step in which the handler is invoked once more for the transaction the
\* pump holds.
Invokes == calls' # calls /\ calls' # <<>>

\* A step in which an acknowledgement is produced.
Acks == ackCount' # ackCount \/ ackVal' # ackVal

\* The pump takes the transactions one at a time in the order of their
\* emission, and every handler invocation is on the transaction emitted
\* last, which is still unacknowledged.
InEmissionOrder ==
  /\ emitted' # emitted =>
       /\ pumpPc = "recv" /\ pipeOpen
       /\ emitted' = emitted + 1
       /\ cur'.id = emitted'
       /\ outstanding = {}
  /\ Invokes =>
       /\ cur' = cur
       /\ cur.id = emitted
       /\ outstanding = {cur.id}
       /\ calls' = Append(calls, calls'[Len(calls')])
       /\ IF s.consumerFunc.kind = "batch"
          THEN calls'[Len(calls')].arg = ToMessageBatch(cur.payload)
          ELSE calls'[Len(calls')].arg =
                 ToMessageBatch(cur.payload)[Len(calls')]

\* C30 as stated: the handler is invoked on the transactions in the order of
\* their emission, and from the moment the output's channel is closed the
\* pump makes no further handler invocation and produces no further
\* acknowledgement.
C30_NothingAfterClose ==
  [][ /\ InEmissionOrder
      /\ ~pipeOpen => (~Invokes /\ ~Acks) ]_vars

\* C30 amended: the handler is invoked on the transactions in the order of
\* their emission; once the channel is closed the pump takes no further
\* transaction, invokes the handler and acknowledges only for the
\* transaction it already holds, and at its next receive it terminates,
\* after which it invokes and acknowledges nothing.
C30_PumpStopsAtClosedReceive ==
  [][ /\ InEmissionOrder
      /\ ~pipeOpen =>
           /\ ~pipeOpen'
           /\ emitted' = emitted
           /\ cur' = cur
           /\ (Invokes \/ Acks) => pumpPc \in {"call", "ack"}
           /\ Acks => /\ ackCount' = [ackCount EXCEPT ![cur.id] = 1]
                      /\ ackCount[cur.id] = 0
      /\ (~pipeOpen /\ pumpPc = "recv") =>
           (pumpPc' \in {"recv", "exit"} /\ ~Invokes /\ ~Acks)
      /\ pumpPc = "exit" =>
           (pumpPc' = "exit" /\ ~Invokes /\ ~Acks) ]_vars

\* The pump has handled two transactions in order and has terminated on the
\* closed channel.
C30_Witness ==
  /\ pumpPc = "exit"
  /\ ~pipeOpen
  /\ emitted = 2
  /\ cur.id = 2
  /\ ackCount[1] = 1
  /\ ackCount[2] = 1

====
